---- MODULE Spec2Model ----
(***************************************************************************)
(* Model of src/lib.js (node-api-extension-installer): the action queue,   *)
(* the install / update / uninstall jobs with their callback chains, the   *)
(* status observer with its session flag, the child process bookkeeping    *)
(* and the exit protocol of the manager.                                   *)
(*                                                                         *)
(* JavaScript runs every handler to completion on one thread.  An action   *)
(* of this module is one handler: an API call of the host, or the delivery *)
(* of one callback of an asynchronous call (exec, fs, https, tar, the      *)
(* runner, the container backend).  Calls that are outstanding are the     *)
(* records of the set "pending".  The functions of lib.js are operators on *)
(* a record of the module-level variables of lib.js.                       *)
(***************************************************************************)
EXTENDS Integers, Sequences, FiniteSets, TLC

\* ------------------------------------------------------------------------
\* Program constants
MANAGER_NAME == "roon-extension-manager"
UPDATER_NAME == "roon-extension-manager-updater"
ACTION_INSTALL == 1
ACTION_UPDATE == 2
ACTION_UNINSTALL == 3
ACTION_START == 4
ACTION_START_AND_LOG == 5
ACTION_RESTART == 6
ACTION_RESTART_AND_LOG == 7
ACTION_STOP == 8
perform_update == 66
perform_restart == 67

\* ------------------------------------------------------------------------
\* Bounds of the model
MaxRequests == 2      \* calls of the host API and spontaneous events per run
MaxPeerDeps == 2      \* missing peer dependencies reported by one query
MaxAdvert == 3        \* names listed by one "npm outdated" output
MaxCategories == 1    \* categories of one manifest file
MaxExtensions == 1    \* entries of one category of a manifest file
MaxFragments == 1     \* files of the directory of local manifests

\* The catalog of the model: the two system entries and three extensions.
\* "ext" and "2048" come from a git repository (package backend), "img"
\* from a container image.  "2048" is the name _get_name derives from
\* https://github.com/owner/2048.git: an integer-like property key.
RepoNames == {MANAGER_NAME, UPDATER_NAME, "ext", "2048"}
ImageNames == {"img"}
IndexNames == {"2048"}
\* "dual" declares both a repository and an image
DualNames == {"dual"}
REPOS_NAME == "roon-extension-repository"
SYSTEM_NAME == "System"
Names == RepoNames \cup ImageNames \cup DualNames \cup {REPOS_NAME}
NotRunning == -1      \* exit_code while the process lives
NoCode == -2          \* "exit_code" argument left undefined

VARIABLES
    repos,                \* the names the host has listed from the catalog
    catalog,              \* lib.js:98 (repos), the categories
    repos_system,         \* lib.js:30-57, the System category
    index_cache,          \* lib.js:99, name -> <<category, position>>
    features,             \* lib.js:97
    docker_version,       \* docker.get_status().version is set
    main_repo,            \* the file repository.json of the repository package
    local_repos,          \* the directory of local manifests
    archived,             \* names whose job in flight has made a backup archive
    ignore_data,          \* lib.js:890, the text of the ignore file on disk
    cwd_paths,            \* the paths fs.existsSync finds under options.cwd
    globs,                \* lib.js:892, the list of the latest _create_archive
    entry_url,            \* repository.url of the catalog entry looked up
    package_json,         \* _requested.gitCommittish in package.json of the manager
    derived_name,         \* lib.js:599, the name _get_name returned
    branch,               \* lib.js:849, the branch _download_gitignore resolved
    activity,             \* is_idle() at each on_activity_changed() of the latest step
    action_queue,         \* lib.js:105, entries in insertion order
    npm_installed,        \* lib.js:100, the keys with a version
    docker_installed,     \* lib.js:102
    updates_list,         \* lib.js:104
    logs_list,            \* lib.js:107, name -> "absent" | "null" | "fd"
    logging_active,       \* lib.js:106
    self_update_pending,  \* lib.js:108
    session_error,        \* lib.js:109, "undefined" | "false" | "true"
    runner,               \* lib.js:94, TRUE when a runner was created
    npm_preferred,        \* lib.js:101
    proc,                 \* runner.get_status(name) of the process runner
    pending,              \* outstanding asynchronous calls
    exit_code,            \* process.exit(code), NotRunning before
    logging_json,         \* names last written to logging.json
    requests,             \* host calls and spontaneous events so far
    last_call,            \* the latest of them
    inflight,             \* names dispatched by _perform_action, not removed
    session_stats         \* job failures logged / notified in the session

vars == <<repos, catalog, repos_system, index_cache, features,
          docker_version, main_repo, local_repos, archived, ignore_data, cwd_paths, globs,
          entry_url,
          package_json,
          derived_name,
          branch,
          activity,
          action_queue, npm_installed, docker_installed, updates_list,
          logs_list, logging_active, self_update_pending, session_error,
          runner, npm_preferred, proc, pending, exit_code, logging_json, requests, last_call,
          inflight, session_stats>>

\* ------------------------------------------------------------------------
\* Sequences and JavaScript objects used as ordered maps
RECURSIVE SeqFilterOut(_, _)
SeqFilterOut(q, name) ==
    IF q = <<>> THEN <<>>
    ELSE IF Head(q).name = name THEN SeqFilterOut(Tail(q), name)
    ELSE <<Head(q)>> \o SeqFilterOut(Tail(q), name)

QueueNames(q) == {q[i].name : i \in 1..Len(q)}

IndexValue(name) == IF name = "2048" THEN 2048 ELSE 0

RECURSIVE SortIndexKeys(_)
SortIndexKeys(S) ==
    IF S = {} THEN <<>>
    ELSE LET m == CHOOSE x \in S : \A y \in S : IndexValue(x) <= IndexValue(y)
         IN  <<m>> \o SortIndexKeys(S \ {m})

RECURSIVE StringKeys(_)
StringKeys(ns) ==
    IF ns = <<>> THEN <<>>
    ELSE IF Head(ns) \in IndexNames THEN StringKeys(Tail(ns))
    ELSE <<Head(ns)>> \o StringKeys(Tail(ns))

\* Object.keys(o) / for (const name in o) of an object whose own keys were
\* inserted in the order ns: integer-like keys ascending, then the others
\* in insertion order.
ObjectKeys(ns) ==
    SortIndexKeys({ns[i] : i \in 1..Len(ns)} \cap IndexNames) \o StringKeys(ns)

RECURSIVE NamesOf(_)
NamesOf(q) == IF q = <<>> THEN <<>> ELSE <<Head(q).name>> \o NamesOf(Tail(q))

Entry(q, name) == CHOOSE e \in {q[i] : i \in 1..Len(q)} : e.name = name

\* results[name] = ... : a new key is appended, an existing key keeps its place
AddKey(ns, name) ==
    IF name \in {ns[i] : i \in 1..Len(ns)} THEN ns ELSE Append(ns, name)

RECURSIVE AddKeys(_, _)
AddKeys(ns, more) ==
    IF more = <<>> THEN ns ELSE AddKeys(AddKey(ns, Head(more)), Tail(more))

SeqToSet(ns) == {ns[i] : i \in 1..Len(ns)}

\* delete o[name]
RECURSIVE DeleteKey(_, _)
DeleteKey(ns, name) ==
    IF ns = <<>> THEN <<>>
    ELSE IF Head(ns) = name THEN Tail(ns)
    ELSE <<Head(ns)>> \o DeleteKey(Tail(ns), name)

\* _get_npm_installed_extensions(installed): the copy holds the keys that
\* _get_index_pair finds in the catalog, inserted in the enumeration order
\* of installed
RECURSIVE Keep(_, _)
Keep(ns, S) ==
    IF ns = <<>> THEN <<>>
    ELSE IF Head(ns) \in S THEN <<Head(ns)>> \o Keep(Tail(ns), S)
    ELSE Keep(Tail(ns), S)

GetNpmInstalledExtensions(installed, names) ==
    Keep(ObjectKeys(installed), names)

RECURSIVE SetToSeq(_)
SetToSeq(S) ==
    IF S = {} THEN <<>>
    ELSE LET x == CHOOSE y \in S : TRUE IN <<x>> \o SetToSeq(S \ {x})

\* ------------------------------------------------------------------------
\* The catalog

\* An entry of a manifest: repository stands for repository.url and image for
\* the image description, each given by the name _get_name derives from it
Extension(name) ==
    [repository |-> IF name \in RepoNames \cup DualNames \cup {REPOS_NAME}
                    THEN name ELSE "undefined",
     image |-> IF name \in ImageNames \cup DualNames
               THEN name ELSE "undefined"]

\* _get_name(extension)
GetName(extension) ==
    IF extension.repository # "undefined" THEN extension.repository
    ELSE extension.image

\* repos_system as the module defines it; positions count from 1 here, so
\* REPOS_INDEX, 2 in the source, is 3
SystemCategory ==
    [display_name |-> SYSTEM_NAME,
     extensions |-> <<Extension(UPDATER_NAME), Extension(MANAGER_NAME),
                      Extension(REPOS_NAME)>>]
REPOS_INDEX == 3

\* No index pair
NoPair == <<>>

\* The features file: a flag that is not set is "undefined"
FeatureSets ==
    [docker_install : {"undefined", "off", "prio"},
     npm_install : {"undefined", "off"},
     auto_update : {"undefined", "off"}]
NoFeatures ==
    [docker_install |-> "undefined", npm_install |-> "undefined",
     auto_update |-> "undefined"]

\* The manifest files.  A file is named *.json or not; reading it gives the
\* parsed categories ("ok"), fails with ENOENT ("missing") or a SyntaxError
\* ("invalid"), which _read_JSON_file_sync turns into undefined, or fails
\* otherwise ("denied"), which it throws
SeqsUpTo(S, n) == UNION {[1..m -> S] : m \in 0..n}
CategoryNames == {SYSTEM_NAME, "Extensions"}
Categories ==
    [display_name : CategoryNames,
     extensions : SeqsUpTo({Extension("ext"), Extension("img")},
                           MaxExtensions)]
Manifests == SeqsUpTo(Categories, MaxCategories)
File(json, state, cats) == [json |-> json, state |-> state, cats |-> cats]
MainFiles ==
    {File(TRUE, "ok", m) : m \in Manifests}
    \cup {File(TRUE, st, <<>>) : st \in {"missing", "invalid", "denied"}}
FragmentFiles ==
    {File(TRUE, "ok", m) : m \in Manifests}
    \cup {File(TRUE, st, <<>>) : st \in {"invalid", "denied"}}
    \cup {File(FALSE, "ok", <<>>)}
\* What fs.readdir gives: an error, or the files of the directory
LocalDirs ==
    {[err |-> TRUE, files |-> <<>>]}
    \cup {[err |-> FALSE, files |-> fs] :
             fs \in SeqsUpTo(FragmentFiles, MaxFragments)}

\* The test of _add_to_repository on one entry (lib.js:514-528)
InstallTypeActive(extension, f, version) ==
    \/ extension.repository # "undefined" /\ f.npm_install # "off"
    \/ extension.image # "undefined" /\ version

RECURSIVE Filtered(_, _, _)
Filtered(extensions, f, version) ==
    IF extensions = <<>> THEN <<>>
    ELSE (IF InstallTypeActive(Head(extensions), f, version)
          THEN <<Head(extensions)>> ELSE <<>>)
         \o Filtered(Tail(extensions), f, version)

RECURSIVE CategoryIndex(_, _, _)
\* for (j = 0; j < repos.length; j++) if (repos[j].display_name == ...) break
CategoryIndex(cats, display_name, j) ==
    IF j > Len(cats) \/ cats[j].display_name = display_name THEN j
    ELSE CategoryIndex(cats, display_name, j + 1)

\* The loop of _add_to_repository over the categories of a manifest
\* (lib.js:517-547)
RECURSIVE AddCategories(_, _, _, _)
AddCategories(cats, new_repo, f, version) ==
    IF new_repo = <<>> THEN cats
    ELSE LET filtered == Filtered(Head(new_repo).extensions, f, version)
             j == CategoryIndex(cats, Head(new_repo).display_name, 1)
             cats1 == IF filtered = <<>> THEN cats
                      ELSE IF j = Len(cats) + 1
                      THEN Append(cats, [display_name |->
                                             Head(new_repo).display_name,
                                         extensions |-> filtered])
                      ELSE [cats EXCEPT ![j].extensions = @ \o filtered]
         IN  AddCategories(cats1, Tail(new_repo), f, version)

\* _add_to_repository(file).  repos[0] is the object repos_system, so what is
\* added to the first category stays in repos_system
AddToRepository(s, file) ==
    IF ~file.json \/ file.state \in {"missing", "invalid"} THEN s
    ELSE IF file.state = "denied" THEN [s EXCEPT !.thrown = TRUE]
    ELSE LET cats == AddCategories(s.catalog, file.cats, s.features,
                                   s.docker_version)
         IN  [s EXCEPT !.catalog = cats,
                       !.repos_system = IF cats = <<>> THEN @ ELSE cats[1]]

RECURSIVE AddFiles(_, _)
AddFiles(s, files) ==
    IF files = <<>> \/ s.thrown THEN s
    ELSE AddFiles(AddToRepository(s, Head(files)), Tail(files))

\* The names of the extensions of a list of categories
CatalogNames(cats) ==
    UNION {{GetName(cats[i].extensions[j]) :
                j \in 1..Len(cats[i].extensions)} : i \in 1..Len(cats)}

\* The scan of one category by _get_index_pair from position j on
\* (lib.js:625-636): every entry passed is cached, the scan of the category
\* ends at the first entry of the name
RECURSIVE ScanCategory(_, _, _, _, _)
ScanCategory(cache, extensions, i, j, name) ==
    IF j > Len(extensions) THEN [cache |-> cache, pair |-> NoPair]
    ELSE LET entry_name == GetName(extensions[j])
             c1 == [cache EXCEPT ![entry_name] = <<i, j>>]
         IN  IF entry_name = name THEN [cache |-> c1, pair |-> <<i, j>>]
             ELSE ScanCategory(c1, extensions, i, j + 1, name)

\* The loop over the categories: break leaves the inner loop only, so the
\* categories after a hit are scanned too and a later hit replaces the pair
RECURSIVE ScanCatalog(_, _, _, _, _)
ScanCatalog(cache, cats, i, name, pair) ==
    IF i > Len(cats) THEN [cache |-> cache, pair |-> pair]
    ELSE LET r == ScanCategory(cache, cats[i].extensions, i, 1, name)
         IN  ScanCatalog(r.cache, cats, i + 1, name,
                         IF r.pair # NoPair THEN r.pair ELSE pair)

\* _get_index_pair(name): the pair and the cache it leaves
GetIndexPair(s, name) ==
    IF s.index_cache[name] # NoPair
    THEN [cache |-> s.index_cache, pair |-> s.index_cache[name]]
    ELSE ScanCatalog(s.index_cache, s.catalog, 1, name, NoPair)

\* _get_index_pair(name) is not undefined
Resolvable(s) == {n \in Names : GetIndexPair(s, n).pair # NoPair}

\* The cache after _get_index_pair was called for the names ns in turn
RECURSIVE LookupAll(_, _)
LookupAll(s, ns) ==
    IF ns = <<>> THEN s
    ELSE LookupAll([s EXCEPT !.index_cache = GetIndexPair(s, Head(ns)).cache],
                   Tail(ns))

\* The cache after every name of the catalog has been looked up
FullCache(cats) ==
    LET s0 == [index_cache |-> [n \in Names |-> NoPair], catalog |-> cats]
    IN  [n \in Names |-> GetIndexPair(s0, n).pair]

\* ------------------------------------------------------------------------
\* The record of the program's variables a handler works on
Cur ==
    [repos |-> repos, catalog |-> catalog, repos_system |-> repos_system,
     index_cache |-> index_cache, features |-> features,
     docker_version |-> docker_version,
     main_repo |-> main_repo, local_repos |-> local_repos,
     archived |-> archived, ignore_data |-> ignore_data,
     cwd_paths |-> cwd_paths, globs |-> globs,
     entry_url |-> entry_url,
     package_json |-> package_json,
     derived_name |-> derived_name,
     branch |-> branch,
     activity |-> <<>>,
     action_queue |-> action_queue, npm_installed |-> npm_installed,
     docker_installed |-> docker_installed, updates_list |-> updates_list,
     logs_list |-> logs_list, logging_active |-> logging_active,
     self_update_pending |-> self_update_pending,
     session_error |-> session_error, runner |-> runner,
     npm_preferred |-> npm_preferred, proc |-> proc,
     pending |-> pending, exit_code |-> exit_code,
     logging_json |-> logging_json, inflight |-> inflight,
     status_out |-> <<>>, cmds_out |-> <<>>, dispatch_out |-> <<>>,
     session_stats |-> session_stats, thrown |-> FALSE]

Pend(s, c) == [s EXCEPT !.pending = @ \cup {c}]
\* An outstanding call: k names the call, name the extension it is about (or
\* "" for an unscoped query), cb the completion callback of the job
\* ("installed", "updated", "unregister" or "none"); the other fields are the
\* variables its callback closes over.
Cont(k, name, cb) ==
    [k |-> k, name |-> name, cb |-> cb, then |-> "none", user |-> FALSE,
     log |-> "undefined", options |-> "none", peer |-> FALSE, count |-> 0,
     res |-> <<>>]
Cmd(s, c, name) == [s EXCEPT !.cmds_out = Append(@, <<c, name>>)]

\* ------------------------------------------------------------------------
\* _set_status(message, is_error): always logged, handed to status_cb
\* unless an error was already reported in the session.
JobFailures == {"Installation failed", "Update failed", "Uninstall failed"}

SetStatus(s, msg, name, is_error) ==
    LET delivered == s.session_error # "true"
        counted == is_error /\ msg \in JobFailures /\ s.action_queue # <<>>
    IN  [s EXCEPT
          !.status_out = Append(@, [msg |-> msg, name |-> name,
                                    err |-> is_error, delivered |-> delivered]),
          !.session_stats =
              IF counted THEN [logged |-> @.logged + 1,
                               notified |-> @.notified +
                                            (IF delivered THEN 1 ELSE 0)]
              ELSE @,
          !.session_error =
              IF @ = "false" /\ is_error THEN "true" ELSE @]

\* _get_log_descriptor(name): opens the log file unless a descriptor is held
GetLogDescriptor(s, name) ==
    IF s.logs_list[name] \in {"absent", "null"}
    THEN [s EXCEPT !.logs_list[name] = "fd"]
    ELSE s

\* _start(name, log), log \in {"undefined", "true", "false"}.  Without a
\* runner "runner.start" is a property access on undefined: it throws.
Start(s, name, log) ==
    LET lg == IF log = "undefined"
              THEN s.logging_active /\ s.logs_list[name] # "absent"
              ELSE log = "true"
        s1 == IF log = "false" /\ s.logs_list[name] = "null"
              THEN [s EXCEPT !.logs_list[name] = "absent"] ELSE s
        s2 == IF lg THEN GetLogDescriptor(s1, name) ELSE s1
    IN  IF name \in SeqToSet(s2.npm_installed) /\ ~s2.runner
        THEN [s2 EXCEPT !.thrown = TRUE]
        ELSE LET s3 == IF name \in SeqToSet(s2.npm_installed) \cup s2.docker_installed
                       THEN [s2 EXCEPT !.proc[name] = "running"] ELSE s2
             IN  SetStatus(s3, IF lg THEN "Started (with logging)"
                                     ELSE "Started", name, FALSE)

\* _terminate that writes logging.json before it switches the registration
\* of the manager
TerminateWriteFirst(s, code, log) ==
    LET m == s.logs_list[MANAGER_NAME]
        s1 == IF ~s.logging_active THEN s
              ELSE [s EXCEPT
                      !.logs_list[MANAGER_NAME] =
                          IF log = "true" /\ m # "fd" THEN "null"
                          ELSE IF log = "false" /\ m = "fd" THEN "absent"
                          ELSE @,
                      !.logging_json = {n \in Names : s.logs_list[n] # "absent"}]
    IN  IF s1.runner
        THEN Pend(s1, [Cont("prepare_exit", MANAGER_NAME, "none") EXCEPT
                         !.count = IF code = NoCode THEN 0 ELSE code])
        ELSE [s1 EXCEPT !.exit_code = IF code = NoCode THEN 1 ELSE code]

\* _terminate(exit_code, log), log \in {"undefined", "true", "false"}
Terminate(s, code, log) ==
    LET m == s.logs_list[MANAGER_NAME]
        s1 == IF ~s.logging_active THEN s
              ELSE LET l2 == IF log = "true" /\ m # "fd"
                             THEN [s.logs_list EXCEPT ![MANAGER_NAME] = "null"]
                             ELSE IF log = "false" /\ m = "fd"
                             THEN [s.logs_list EXCEPT ![MANAGER_NAME] = "absent"]
                             ELSE s.logs_list
                   IN  [s EXCEPT !.logs_list = l2,
                                 !.logging_json =
                                     {n \in Names : l2[n] # "absent"}]
    IN  IF s1.runner
        THEN Pend(s1, [Cont("prepare_exit", MANAGER_NAME, "none") EXCEPT
                         !.count = IF code = NoCode THEN 0 ELSE code])
        ELSE [s1 EXCEPT !.exit_code = IF code = NoCode THEN 1 ELSE code]

\* _exit_for_update()
ExitForUpdate(s) == Terminate(s, perform_update, "undefined")

\* ApiExtensionInstaller.prototype.get_status(name).state
GetStatusState(s, name) ==
    IF name \in s.docker_installed THEN s.proc[name]
    ELSE IF name \notin SeqToSet(s.npm_installed) THEN "not_installed"
    ELSE IF s.runner THEN s.proc[name] ELSE "installed"

\* _query_updates(cb, name): the container backend is asked when it has
\* installs, then "npm outdated" is run; both fill the same results object.
QueryUpdates(s, cb, scope) ==
    LET s1 == IF s.docker_installed # {}
              THEN Pend(s, Cont("docker_query_updates", scope, cb))
              ELSE s
    IN  Pend(Cmd(s1, "npm outdated", scope),
             Cont("npm_outdated", scope, cb))

\* _load_repository() up to fs.readdir (lib.js:460-469)
LoadRepository(s) ==
    LET s1 == AddToRepository([s EXCEPT !.catalog = <<s.repos_system>>],
                              s.main_repo)
    IN  IF s1.thrown THEN s1 ELSE Pend(s1, Cont("readdir", "", "none"))

\* The callback of fs.readdir in _load_repository (lib.js:469-506); the
\* query it starts ends with repository_cb(values)
ReaddirResult(s) ==
    LET s1 == IF s.local_repos.err THEN s
              ELSE AddFiles(s, s.local_repos.files)
    IN  IF s1.thrown THEN s1
        ELSE IF Len(s1.catalog) > 0
        THEN LET s2 == LookupAll(s1, ObjectKeys(s1.npm_installed))
                 s3 == [s2 EXCEPT !.npm_installed =
                            GetNpmInstalledExtensions(@, Resolvable(s2))]
                 s4 == LookupAll(s3, SetToSeq(s3.docker_installed))
                 s5 == [s4 EXCEPT !.docker_installed =
                            (@ \cap Resolvable(s4)) \ {MANAGER_NAME}]
                 s6 == SetStatus(s5, "Extension Repository loaded", "", FALSE)
             IN  QueryUpdates(s6, "repository_cb", "")
        ELSE SetStatus(s1, "Extension Repository not found", "", TRUE)

\* A _backup that does not wait: the update command starts beside it
BackupBeside(s, name, cb) ==
    Pend(Pend(s, Cont("backup_read", name, cb)),
         [Cont("npm_update", name, cb) EXCEPT !.options = "none"])

\* _backup(name, options, cb) reads the ignore file of the extension
Backup(s, name, cb) == Pend(s, Cont("backup_read", name, cb))

\* The callbacks handed to _stop, with _restart asking for the exit code of
\* the self-update
AfterStopRestartAsUpdate(s, name, then, cb, log) ==
    CASE then = "exit_for_update" -> ExitForUpdate(s)
      [] then = "restart" ->
            IF s.runner /\ name = MANAGER_NAME
            THEN Terminate(s, perform_update, log)
            ELSE Start(s, name, log)
      [] then = "update" ->
            LET s1 == SetStatus(s, "Updating", name, FALSE)
            IN  IF name \in SeqToSet(s1.npm_installed) THEN Backup(s1, name, cb)
                ELSE IF name \in s1.docker_installed
                THEN Pend(Cmd(s1, "docker.update", name),
                          Cont("docker_update", name, cb))
                ELSE s1
      [] then = "uninstall" ->
            LET s1 == SetStatus(s, "Uninstalling", name, FALSE)
            IN  IF name \in SeqToSet(s1.npm_installed)
                THEN Pend(Cmd(s1, "npm uninstall", name),
                          Cont("npm_uninstall", name, cb))
                ELSE IF name \in s1.docker_installed
                THEN Pend(Cmd(s1, "docker.uninstall", name),
                          Cont("docker_uninstall", name, cb))
                ELSE s1
      [] OTHER -> s

\* The callback handed to _stop, called synchronously or on completion:
\* "update", "uninstall" (lib.js:738, 919), "restart" with its log argument
\* (lib.js:1021), "exit_for_update" (lib.js:736), "none" (perform_action Stop)
AfterStop(s, name, then, cb, log) ==
    CASE then = "exit_for_update" -> ExitForUpdate(s)
      [] then = "restart" ->
            IF s.runner /\ name = MANAGER_NAME
            THEN Terminate(s, perform_restart, log)
            ELSE Start(s, name, log)
      [] then = "update" ->
            LET s1 == SetStatus(s, "Updating", name, FALSE)
            IN  IF name \in SeqToSet(s1.npm_installed) THEN Backup(s1, name, cb)
                ELSE IF name \in s1.docker_installed
                THEN Pend(Cmd(s1, "docker.update", name),
                          Cont("docker_update", name, cb))
                ELSE s1
      [] then = "uninstall" ->
            LET s1 == SetStatus(s, "Uninstalling", name, FALSE)
            IN  IF name \in SeqToSet(s1.npm_installed)
                THEN Pend(Cmd(s1, "npm uninstall", name),
                          Cont("npm_uninstall", name, cb))
                ELSE IF name \in s1.docker_installed
                THEN Pend(Cmd(s1, "docker.uninstall", name),
                          Cont("docker_uninstall", name, cb))
                ELSE s1
      [] OTHER -> s

\* _stop(name, user, cb)
Stop(s, name, user, then, cb, log) ==
    LET s1 == SetStatus(s, "Terminating process", name, FALSE)
        k == [Cont("runner_exit", name, cb) EXCEPT
                !.then = then, !.user = user, !.log = log]
    IN  IF name \in SeqToSet(s1.npm_installed)
        THEN IF s1.runner /\ s1.proc[name] = "running" /\ name # MANAGER_NAME
             THEN Pend(s1, k)
             ELSE AfterStop(s1, name, then, cb, log)
        ELSE IF name \in s1.docker_installed
        THEN Pend(s1, [k EXCEPT !.k = "docker_stop"])
        ELSE s1

\* ------------------------------------------------------------------------
\* The jobs

\* _install(name, options, cb)
Install(s, name, options, cb) ==
    LET r == GetIndexPair(s, name)
        s0 == IF name = REPOS_NAME THEN s
              ELSE [s EXCEPT !.index_cache = r.cache]
        found == /\ r.pair # NoPair
                 /\ r.pair[1] <= Len(s.catalog)
                 /\ r.pair[2] <= Len(s.catalog[r.pair[1]].extensions)
        extension == IF name = REPOS_NAME
                     THEN s.repos_system.extensions[REPOS_INDEX]
                     ELSE s.catalog[r.pair[1]].extensions[r.pair[2]]
        s1 == SetStatus(s0, "Installing", name, FALSE)
        repo == extension.repository # "undefined"
        image == extension.image # "undefined"
    IN  IF name # REPOS_NAME /\ ~found THEN [s0 EXCEPT !.thrown = TRUE]
        ELSE IF (s1.npm_preferred /\ repo /\ image) \/ (repo /\ ~image)
        THEN Pend(Cmd(s1, "npm install", name), Cont("npm_install", name, cb))
        ELSE IF image
        THEN Pend(Cmd(s1, "docker.install", name),
                  [Cont("docker_install", name, cb) EXCEPT !.options = options])
        ELSE s1

\* _update without the branch for the manager under a runner
UpdateAlwaysInProcess(s, name, cb) ==
    Stop(s, name, FALSE, "update", cb, "undefined")

\* _update(name, cb)
Update(s, name, cb) ==
    IF s.runner /\ name = MANAGER_NAME
    THEN Stop(s, name, FALSE, "exit_for_update", "none", "undefined")
    ELSE Stop(s, name, FALSE, "update", cb, "undefined")

\* _uninstall(name, cb)
Uninstall(s, name, cb) == Stop(s, name, TRUE, "uninstall", cb, "undefined")

\* on_activity_changed && on_activity_changed(): the host is told that the
\* activity changed and reads is_idle() (lib.js:421-423)
ActivityChanged(s) ==
    [s EXCEPT !.activity = Append(@, s.action_queue = <<>>)]

\* _perform_action(): dispatches the first key of action_queue
PerformAction(s) ==
    IF s.action_queue = <<>> THEN ActivityChanged(s)
    ELSE LET name == ObjectKeys(NamesOf(s.action_queue))[1]
             e == Entry(s.action_queue, name)
             s1 == [s EXCEPT
                      !.session_error = IF @ = "true" THEN @ ELSE "false",
                      !.inflight = Append(@, name),
                      !.dispatch_out = Append(@, name)]
         IN  CASE e.action = ACTION_INSTALL ->
                      Install(s1, name, e.options, "installed")
               [] e.action = ACTION_UPDATE ->
                      Update(s1, name, IF name = MANAGER_NAME
                                       THEN "none" ELSE "updated")
               [] e.action = ACTION_UNINSTALL ->
                      Uninstall(s1, name, "unregister")
               [] OTHER -> [s1 EXCEPT !.session_error = "undefined"]

\* _queue_action without its "No action replace" test: a queued entry is
\* overwritten
QueueActionReplace(s, name, props) ==
    LET e == [name |-> name, action |-> props.action,
              options |-> props.options]
    IN  IF name \in QueueNames(s.action_queue)
        THEN PerformAction([s EXCEPT !.action_queue =
                 [i \in 1..Len(@) |-> IF @[i].name = name THEN e ELSE @[i]]])
        ELSE LET s1 == [s EXCEPT !.action_queue = Append(@, e)]
             IN  IF Len(s1.action_queue) = 1
                 THEN PerformAction(ActivityChanged(
                          [s1 EXCEPT !.session_stats =
                                       [logged |-> 0, notified |-> 0]]))
                 ELSE s1

\* _queue_action that tells the host of every entry it stores
QueueActionAlwaysTells(s, name, props) ==
    IF name \in QueueNames(s.action_queue) THEN s
    ELSE LET s1 == ActivityChanged(
                       [s EXCEPT !.action_queue =
                           Append(@, [name |-> name, action |-> props.action,
                                      options |-> props.options])])
         IN  IF Len(s1.action_queue) = 1
             THEN PerformAction([s1 EXCEPT !.session_stats =
                                   [logged |-> 0, notified |-> 0]])
             ELSE s1

\* _queue_action(name, action_props)
QueueAction(s, name, props) ==
    IF name \in QueueNames(s.action_queue) THEN s
    ELSE LET s1 == [s EXCEPT !.action_queue =
                       Append(@, [name |-> name, action |-> props.action,
                                  options |-> props.options])]
         IN  IF Len(s1.action_queue) = 1
             THEN PerformAction(ActivityChanged(
                      [s1 EXCEPT !.session_stats =
                                   [logged |-> 0, notified |-> 0]]))
             ELSE s1

Job(action) == [action |-> action, options |-> "none"]

\* _remove_action(name)
RECURSIVE RemoveOne(_, _)
RemoveOne(ns, name) ==
    IF ns = <<>> THEN <<>>
    ELSE IF Head(ns) = name THEN Tail(ns)
    ELSE <<Head(ns)>> \o RemoveOne(Tail(ns), name)

RemoveAction(s, name) ==
    PerformAction([s EXCEPT
        !.action_queue = SeqFilterOut(@, name),
        !.inflight = RemoveOne(@, name),
        !.archived = @ \ {name}])

\* _queue_updates(updates); updates holds its keys in insertion order
RECURSIVE QueueUpdatesLoop(_, _)
QueueUpdatesLoop(s, keys) ==
    IF keys = <<>> THEN s
    ELSE QueueUpdatesLoop(
             IF Head(keys) = MANAGER_NAME
             THEN [s EXCEPT !.self_update_pending = TRUE]
             ELSE QueueAction(s, Head(keys), Job(ACTION_UPDATE)),
             Tail(keys))

QueueUpdates(s, updates) ==
    IF updates = <<>> THEN s
    ELSE LET s1 == QueueUpdatesLoop(s, ObjectKeys(updates))
         IN  IF s1.self_update_pending
             THEN LET s2 == IF s1.runner /\ UPDATER_NAME \in s1.updates_list
                            THEN QueueAction(s1, UPDATER_NAME,
                                             Job(ACTION_UPDATE))
                            ELSE s1
                  IN  QueueAction(s2, MANAGER_NAME, Job(ACTION_UPDATE))
             ELSE s1

\* _register_version(name, update, err)
RegisterVersion(s, name, update, err) ==
    LET version == name \in SeqToSet(s.npm_installed) \cup s.docker_installed
        s1 == IF err
              THEN SetStatus(s, IF update THEN "Update failed"
                                ELSE "Installation failed", name, TRUE)
              ELSE IF version
              THEN LET s2 == SetStatus(s, IF update THEN "Updated"
                                          ELSE "Installed", name, FALSE)
                       s3 == IF name = REPOS_NAME THEN s2
                             ELSE IF update
                             THEN IF (~s2.self_update_pending
                                      \/ name \in s2.docker_installed)
                                     /\ GetStatusState(s2, name) # "stopped"
                                  THEN Start(s2, name, "undefined")
                                  ELSE s2
                             ELSE Start(s2, name, "false")
                   IN  IF name = REPOS_NAME
                       THEN IF ~s2.self_update_pending
                            THEN LoadRepository(s2) ELSE s2
                       ELSE IF s3.thrown THEN s3
                       ELSE QueryUpdates(s3, "none", name)
              ELSE s
    IN  IF s1.thrown THEN s1
        ELSE [RemoveAction(s1, name) EXCEPT !.session_error = "undefined"]

\* _unregister_version(name)
UnregisterVersion(s, name) ==
    LET s1 == IF name \in SeqToSet(s.npm_installed)
              THEN [s EXCEPT !.npm_installed = DeleteKey(@, name),
                             !.updates_list = @ \ {name}]
              ELSE s
        s2 == SetStatus(s1, "Uninstalled", name, FALSE)
    IN  [RemoveAction(s2, name) EXCEPT !.session_error = "undefined"]

\* cb(name, err) with the manager's Update handed a callback as well
CallCbOfManager(s, cb, name, err) ==
    CASE cb = "installed" -> RegisterVersion(s, name, FALSE, err)
      [] cb = "unregister" -> UnregisterVersion(s, name)
      [] cb = "updated" \/ name = MANAGER_NAME ->
            RegisterVersion(s, name, TRUE, err)
      [] OTHER -> s

\* cb && cb(name, err) with the callbacks _perform_action hands to the jobs
CallCb(s, cb, name, err) ==
    CASE cb = "installed" -> RegisterVersion(s, name, FALSE, err)
      [] cb = "updated" -> RegisterVersion(s, name, TRUE, err)
      [] cb = "unregister" -> UnregisterVersion(s, name)
      [] OTHER -> s

\* The callback _post_install hands on: after peer dependencies were
\* installed it restarts the manager instead of completing (lib.js:776-781)
CallPostCb(s, k) ==
    IF k.peer /\ s.runner /\ k.name = MANAGER_NAME
    THEN Terminate(s, perform_restart,
                   IF ~s.logging_active THEN "undefined"
                   ELSE CASE s.logs_list[MANAGER_NAME] = "fd" -> "true"
                          [] s.logs_list[MANAGER_NAME] = "null" -> "false"
                          [] OTHER -> "undefined")
    ELSE CallCb(s, k.cb, k.name, FALSE)

\* _restore that extracts whatever options it is given
RestoreAlways(s, k) ==
    Pend(Cmd(s, "tar.extract", k.name), [k EXCEPT !.k = "tar_extract"])

\* _restore(name, options, cb)
Restore(s, k) ==
    IF k.options = "archive"
    THEN Pend(Cmd(s, "tar.extract", k.name), [k EXCEPT !.k = "tar_extract"])
    ELSE CallPostCb(s, k)

\* _read_npmignore(name, options, cb)
ReadNpmignore(s, k) == Pend(s, [k EXCEPT !.k = "read_npmignore"])

\* _post_install(name, options, cb)
PostInstall(s, name, options, cb) ==
    Pend(Cmd(s, "npm list", name),
         [Cont("query_installs", name, cb) EXCEPT !.options = options])

\* _install_peer_dependency(name, peer_deps, count, cb)
InstallPeerDependency(s, k, count) ==
    Pend(Cmd(SetStatus(s, "Installing peer dependency", k.name, FALSE),
             "npm install peer", k.name),
         [k EXCEPT !.k = "peer_dep", !.count = count, !.peer = TRUE])

\* _restart(name, log)
Restart(s, name, log) == Stop(s, name, FALSE, "restart", "none", log)

\* The on-exit callback _start hands to runner.start (lib.js:988-1008);
\* code is "null" when the child was killed by a signal
OnExit(s, name, user, code) ==
    LET s1 == IF user THEN SetStatus(s, "Stopped", name, FALSE)
              ELSE SetStatus(s, "Process terminated", name,
                             code \notin {"null", "0", "3221225786"})
        s2 == IF s1.logs_list[name] = "fd"
              THEN [s1 EXCEPT !.logs_list[name] =
                                 IF user THEN "absent" ELSE "null"]
              ELSE s1
    IN  [s2 EXCEPT !.proc[name] = IF user THEN "stopped" ELSE "terminated"]

\* ------------------------------------------------------------------------
\* Initial states: the manager after its constructor has run, the catalog
\* loaded and the queue empty
Call(op, name, arg) == [op |-> op, name |-> name, arg |-> arg]

\* The catalog _load_repository leaves when the manifest lists the given
\* names in one category
LoadedCatalog(names, f, version) ==
    LET listed == SetToSeq(names \ CatalogNames(<<SystemCategory>>))
        kept == Filtered([i \in 1..Len(listed) |-> Extension(listed[i])],
                         f, version)
    IN  <<SystemCategory>>
        \o (IF kept = <<>> THEN <<>>
            ELSE <<[display_name |-> "Extensions", extensions |-> kept]>>)

\* cfg: what is installed and running; r: a runner is in use; l: logging is
\* enabled; adv: every installed extension is advertised as updatable (as
\* after the npm 7 fallback of the first update query) or none is; f: the
\* flags of the features file; version: a container backend was found;
\* main, local: the manifest files now on the disk
InitProgram(cfg, r, l, adv, f, version, main, local) ==
        /\ catalog = LoadedCatalog(cfg.repos, f, version)
        /\ repos = cfg.repos \cap CatalogNames(catalog)
        /\ repos_system = SystemCategory
        /\ index_cache = FullCache(catalog)
        /\ features = f
        /\ docker_version = version
        /\ main_repo = main
        /\ local_repos = local
        /\ archived = {}
        /\ activity = <<>>
        /\ action_queue = <<>>
        /\ npm_installed = Keep(cfg.npm, CatalogNames(catalog))
        /\ docker_installed = IF version /\ f.docker_install # "off"
                              THEN cfg.docker \cap CatalogNames(catalog)
                              ELSE {}
        /\ updates_list = IF adv THEN SeqToSet(cfg.npm) \cup cfg.docker ELSE {}
        /\ logging_active = l
        /\ logs_list = [n \in Names |->
                          IF l /\ n \in cfg.logging
                             /\ (r \/ n \in cfg.docker \/ n = MANAGER_NAME)
                          THEN "fd" ELSE "absent"]
        /\ self_update_pending = FALSE
        /\ session_error = "undefined"
        /\ runner = r
        /\ npm_preferred = (~version \/ f.docker_install # "prio")
        /\ proc = [n \in Names |->
                     IF n \in cfg.running /\ (r \/ n \in cfg.docker)
                     THEN "running" ELSE "stopped"]
        /\ pending = {}
        /\ exit_code = NotRunning
        /\ logging_json = {n \in Names : l /\ n \in cfg.logging
                              /\ (r \/ n \in cfg.docker \/ n = MANAGER_NAME)}
        /\ requests = 0
        /\ last_call = Call("none", "", "none")
        /\ inflight = <<>>
        /\ session_stats = [logged |-> 0, notified |-> 0]

\* The ignore file of the extension directory and the paths beside it
InitIgnoreFile(data, paths) ==
    /\ ignore_data = data
    /\ cwd_paths = paths
    /\ globs = <<>>

\* ------------------------------------------------------------------------
\* repository.url as text. A text is a sequence of tokens: the separators
\* ':', '/', '.', '#' and words taken whole.
Url(scheme, host, path, suffix, committish) ==
    [scheme |-> scheme, host |-> host, path |-> path, suffix |-> suffix,
     committish |-> committish]
UrlText(u) ==
    u.scheme \o <<":", "/", "/">> \o u.host \o <<"/">> \o u.path
        \o u.suffix \o u.committish
\* https://github.com/owner/slug.git
PlainUrl ==
    Url(<<"https">>, <<"github", ".", "com">>, <<"owner", "/", "slug">>,
        <<".", "git">>, <<>>)
NotCalled == [kind |-> "none", text |-> <<>>]
Undefined == [kind |-> "undefined", text |-> <<>>]
TypeError == [kind |-> "TypeError", text |-> <<>>]
Text(tokens) == [kind |-> "text", text |-> tokens]

\* The entry whose name is derived and the package.json of the manager
InitLookup(u, committish) ==
    /\ entry_url = u
    /\ package_json = committish
    /\ derived_name = NotCalled
    /\ branch = NotCalled

InitFiles(cfg, r, l, adv, f, version, main, local) ==
    /\ InitProgram(cfg, r, l, adv, f, version, main, local)
    /\ InitIgnoreFile(<<>>, {})
    /\ InitLookup(PlainUrl, "undefined")

\* The disk holds no manifest: the repository package is not there
InitFeatures(cfg, r, l, adv, f, version) ==
    InitFiles(cfg, r, l, adv, f, version, File(TRUE, "missing", <<>>),
              [err |-> TRUE, files |-> <<>>])

InitWith(cfg, r, l, adv) ==
    InitFeatures(cfg, r, l, adv, NoFeatures, cfg.repos \cap ImageNames # {})

FreshConfig ==
    [repos |-> Names,
     npm |-> <<MANAGER_NAME, UPDATER_NAME>>, docker |-> {},
     running |-> {MANAGER_NAME, "2048"}, logging |-> {MANAGER_NAME}]

FullConfig ==
    [repos |-> Names,
     npm |-> <<"2048", "ext", MANAGER_NAME, UPDATER_NAME>>,
     docker |-> ImageNames,
     running |-> {MANAGER_NAME, "ext", "img"},
     logging |-> {MANAGER_NAME, "ext"}]

\* A catalog of the system entries, one package and one image, all installed
SmallConfig ==
    [repos |-> {MANAGER_NAME, UPDATER_NAME, "2048", "img"},
     npm |-> <<"2048", MANAGER_NAME, UPDATER_NAME>>,
     docker |-> ImageNames,
     running |-> {MANAGER_NAME, "2048", "img"},
     logging |-> {MANAGER_NAME, "2048"}]

\* The system entries, a package with an ordinary name and one image
UpdatesConfig ==
    [repos |-> {MANAGER_NAME, UPDATER_NAME, "ext", "img"},
     npm |-> <<"ext", MANAGER_NAME, UPDATER_NAME>>,
     docker |-> ImageNames,
     running |-> {MANAGER_NAME, "ext"},
     logging |-> {MANAGER_NAME}]

\* The manager and its updater alone
ExitConfig ==
    [repos |-> {MANAGER_NAME, UPDATER_NAME},
     npm |-> <<MANAGER_NAME, UPDATER_NAME>>,
     docker |-> {},
     running |-> {MANAGER_NAME},
     logging |-> {MANAGER_NAME}]

Init ==
    \E cfg \in {FreshConfig, FullConfig}, r \in BOOLEAN, l \in BOOLEAN :
        InitWith(cfg, r, l, FALSE)

\* The end of a handler: the program's variables take the values the handler
\* left; an exception nobody catches ends the process with code 1
Commit(s) ==
    /\ repos' = s.repos
    /\ catalog' = s.catalog
    /\ repos_system' = s.repos_system
    /\ index_cache' = s.index_cache
    /\ features' = s.features
    /\ docker_version' = s.docker_version
    /\ main_repo' = s.main_repo
    /\ local_repos' = s.local_repos
    /\ archived' = s.archived
    /\ ignore_data' = s.ignore_data
    /\ cwd_paths' = s.cwd_paths
    /\ globs' = s.globs
    /\ entry_url' = s.entry_url
    /\ package_json' = s.package_json
    /\ derived_name' = s.derived_name
    /\ branch' = s.branch
    /\ activity' = s.activity
    /\ action_queue' = s.action_queue
    /\ npm_installed' = s.npm_installed
    /\ docker_installed' = s.docker_installed
    /\ updates_list' = s.updates_list
    /\ logs_list' = s.logs_list
    /\ logging_active' = s.logging_active
    /\ self_update_pending' = s.self_update_pending
    /\ session_error' = s.session_error
    /\ runner' = s.runner
    /\ npm_preferred' = s.npm_preferred
    /\ proc' = s.proc
    /\ pending' = s.pending
    /\ exit_code' = IF s.thrown THEN 1 ELSE s.exit_code
    /\ logging_json' = s.logging_json
    /\ inflight' = s.inflight
    /\ session_stats' = s.session_stats

Alive == exit_code = NotRunning
Take(k) == [Cur EXCEPT !.pending = @ \ {k}]
HostCall(op, name, arg) ==
    /\ Alive
    /\ requests < MaxRequests
    /\ requests' = requests + 1
    /\ last_call' = Call(op, name, arg)
Delivery(k) ==
    Alive /\ k \in pending /\ requests' = requests /\ last_call' = last_call

\* ------------------------------------------------------------------------
\* Calls of the host

\* ApiExtensionInstaller.prototype.perform_action(action, name, options);
\* install options are offered for images only (get_actions)
Options == {"none", "opts"}

ReqInstallOn(name, o) ==
    /\ HostCall("Install", name, o)
    /\ o # "none" => name \in ImageNames
    /\ Commit(QueueAction(Cur, name, [action |-> ACTION_INSTALL,
                                       options |-> o]))

ReqInstall ==
    \E name \in repos \ {MANAGER_NAME, UPDATER_NAME}, o \in Options :
        ReqInstallOn(name, o)

ReqUpdateOn(name) ==
    /\ HostCall("Update", name, "none")
    /\ Commit(IF name \in updates_list
              THEN QueueUpdates(Cur, <<name>>) ELSE Cur)

ReqUpdate == \E name \in repos : ReqUpdateOn(name)

ReqUninstallOn(name) ==
    /\ HostCall("Uninstall", name, "none")
    /\ Commit(QueueAction(Cur, name, Job(ACTION_UNINSTALL)))

ReqUninstall ==
    \E name \in repos \ {MANAGER_NAME, UPDATER_NAME} : ReqUninstallOn(name)

\* Start, Restart and Stop are offered for installed extensions
\* (get_actions); starting a package needs the runner
ReqStart ==
    \E name \in repos \ {MANAGER_NAME, UPDATER_NAME}, log \in BOOLEAN :
        /\ HostCall("Start", name, IF log THEN "true" ELSE "false")
        /\ name \in docker_installed \/ (name \in SeqToSet(npm_installed) /\ runner)
        /\ proc[name] # "running"
        /\ Commit(Start(Cur, name, IF log THEN "true" ELSE "false"))

ReqRestart ==
    \E name \in repos \ {UPDATER_NAME}, log \in BOOLEAN :
        /\ HostCall("Restart", name, IF log THEN "true" ELSE "false")
        /\ name \in docker_installed \/ (name \in SeqToSet(npm_installed) /\ runner)
        /\ proc[name] = "running"
        /\ Commit(Restart(Cur, name, IF log THEN "true" ELSE "false"))

ReqStop ==
    \E name \in repos \ {MANAGER_NAME, UPDATER_NAME} :
        /\ HostCall("Stop", name, "none")
        /\ name \in docker_installed \/ (name \in SeqToSet(npm_installed) /\ runner)
        /\ proc[name] = "running"
        /\ Commit(Stop(Cur, name, TRUE, "none", "none", "undefined"))

\* update_all without the test of the auto_update flag
UpdateAllIgnoringFlag ==
    /\ HostCall("update_all", "", "none")
    /\ Commit(QueryUpdates(Cur, "queue_updates", ""))

\* ApiExtensionInstaller.prototype.update_all()
UpdateAll ==
    /\ HostCall("update_all", "", "none")
    /\ Commit(IF features.auto_update # "off"
              THEN QueryUpdates(Cur, "queue_updates", "") ELSE Cur)

\* ApiExtensionInstaller.prototype.restart_manager()
RestartManager ==
    /\ HostCall("restart_manager", MANAGER_NAME, "none")
    /\ Commit(Restart(Cur, MANAGER_NAME,
                      IF ~logging_active THEN "undefined"
                      ELSE CASE logs_list[MANAGER_NAME] = "fd" -> "true"
                             [] logs_list[MANAGER_NAME] = "null" -> "false"
                             [] OTHER -> "undefined"))

\* ApiExtensionInstaller.prototype.set_log_state(logging)
SetLogState ==
    \E logging \in BOOLEAN :
        /\ HostCall("set_log_state", MANAGER_NAME,
                    IF logging THEN "true" ELSE "false")
        /\ Commit(IF logging # logging_active
                  THEN Restart(Cur, MANAGER_NAME, "undefined") ELSE Cur)

\* _handle_signal(signal)
Signal ==
    /\ HostCall("signal", "", "none")
    /\ Commit(Terminate(Cur, NoCode, "undefined"))

\* A child process started through the runner ends by itself
ChildExit ==
    \E name \in repos \ {MANAGER_NAME}, code \in {"0", "1", "3221225786", "null"} :
        /\ HostCall("child_exit", name, code)
        /\ runner /\ name \in SeqToSet(npm_installed) /\ proc[name] = "running"
        /\ \A k \in pending : ~(k.k = "runner_exit" /\ k.name = name)
        /\ Commit(OnExit(Cur, name, FALSE, code))

\* ------------------------------------------------------------------------
\* Callbacks of the asynchronous calls

\* The callbacks of the backend commands of the jobs, err telling whether
\* the command reported a failure:
\* exec('npm install -g ' + url) of _install (lib.js:663-671),
\* docker.install of _install (lib.js:679-688),
\* exec('npm update -g ' + name) of _update (lib.js:748-756),
\* docker.update of _update (lib.js:759-765), which does not hand on err,
\* exec('npm uninstall -g ' + name) of _uninstall (lib.js:925-929), which
\* does not look at err,
\* docker.uninstall of _uninstall (lib.js:931-940); on success the backend
\* hands over its installs, now without name
BackendCalls ==
    {"npm_install", "docker_install", "npm_update", "docker_update",
     "npm_uninstall", "docker_uninstall"}

NpmInstallResult(k, err) ==
    IF err THEN CallCb(Take(k), k.cb, k.name, TRUE)
    ELSE PostInstall(Take(k), k.name, "none", k.cb)

DockerInstallResult(k, err) ==
    CallCb(IF err
           THEN SetStatus(Take(k), "Installation failed", k.name, TRUE)
           ELSE [Take(k) EXCEPT !.docker_installed = @ \cup {k.name}],
           k.cb, k.name, FALSE)

NpmUpdateResult(k, err) ==
    IF err THEN CallCb(Take(k), k.cb, k.name, TRUE)
    ELSE PostInstall(Take(k), k.name, k.options, k.cb)

DockerUpdateResult(k, err) == CallCb(Take(k), k.cb, k.name, FALSE)

NpmUninstallResult(k, err) == CallCb(Take(k), k.cb, k.name, FALSE)

DockerUninstallResult(k, err) ==
    CallCb(IF err
           THEN SetStatus(Take(k), "Uninstall failed", k.name, TRUE)
           ELSE [Take(k) EXCEPT !.docker_installed =
                     (@ \ {k.name}) \ {MANAGER_NAME}],
           k.cb, k.name, FALSE)

\* The handler of the callback of the backend call k
BackendDone(k, err) ==
    CASE k.k = "npm_install" -> NpmInstallResult(k, err)
      [] k.k = "docker_install" -> DockerInstallResult(k, err)
      [] k.k = "npm_update" -> NpmUpdateResult(k, err)
      [] k.k = "docker_update" -> DockerUpdateResult(k, err)
      [] k.k = "npm_uninstall" -> NpmUninstallResult(k, err)
      [] k.k = "docker_uninstall" -> DockerUninstallResult(k, err)

BackendDoneOn(k, err) == Delivery(k) /\ Commit(BackendDone(k, err))

NpmInstallDone ==
    \E k \in pending, err \in BOOLEAN :
        /\ k.k = "npm_install"
        /\ Delivery(k)
        /\ Commit(NpmInstallResult(k, err))

DockerInstallDone ==
    \E k \in pending, err \in BOOLEAN :
        /\ k.k = "docker_install"
        /\ Delivery(k)
        /\ Commit(DockerInstallResult(k, err))

\* exec('npm list -g --depth=0 ' + name) of _query_installs, called by
\* _post_install (lib.js:773-787, 1195-1246).  result: OtherError for an
\* error that is not a missing peer dependency, else the number of missing
\* peer dependencies; listed: the output lists name with a version
OtherError == -1

\* The callback of a query that replaces the whole map, as the query
\* without a name does (lib.js:1227-1228)
QueryInstallsUnscoped(s, k, result, listed) ==
    IF result = OtherError
    THEN ReadNpmignore(SetStatus(s, "Extension query failed", "", TRUE), k)
    ELSE LET s1 == [s EXCEPT !.npm_installed =
                       GetNpmInstalledExtensions(
                           IF listed THEN <<k.name>> ELSE <<>>, Resolvable(s))]
         IN  IF result > 0 THEN InstallPeerDependency(s1, k, result - 1)
             ELSE ReadNpmignore(s1, k)

QueryInstallsResult(s, k, result, listed) ==
    IF result = OtherError
    THEN ReadNpmignore(SetStatus(s, "Extension query failed", "", TRUE), k)
    ELSE LET s1 == [s EXCEPT !.npm_installed =
                       GetNpmInstalledExtensions(
                           IF listed THEN Append(DeleteKey(@, k.name), k.name)
                           ELSE DeleteKey(@, k.name), Resolvable(s))]
         IN  IF result > 0 THEN InstallPeerDependency(s1, k, result - 1)
             ELSE ReadNpmignore(s1, k)

QueryInstallsDone ==
    \E k \in pending :
        /\ k.k = "query_installs" /\ Delivery(k)
        /\ \E result \in OtherError..MaxPeerDeps, listed \in BOOLEAN :
               /\ result = OtherError => listed
               /\ Commit(QueryInstallsResult(Take(k), k, result, listed))

\* The failure branch without the conversion of the job into an Uninstall
PeerDepFailedKeepJob(s, k) ==
    SetStatus(s, "Installation failed", k.name, TRUE)

\* exec('npm install ' + package_string) of _install_peer_dependency
\* (lib.js:1256-1271)
PeerDepFailed(s, k) ==
    LET s1 == SetStatus(s, "Installation failed", k.name, TRUE)
    IN  IF k.name # MANAGER_NAME
        THEN QueueAction(RemoveAction(s1, k.name), k.name,
                         Job(ACTION_UNINSTALL))
        ELSE s1

PeerDepDoneOn(k, err) ==
    /\ k.k = "peer_dep" /\ Delivery(k)
    /\ Commit(IF err THEN PeerDepFailed(Take(k), k)
              ELSE IF k.count > 0
              THEN InstallPeerDependency(Take(k), k, k.count - 1)
              ELSE ReadNpmignore(Take(k), k))

PeerDepDone == \E k \in pending, err \in BOOLEAN : PeerDepDoneOn(k, err)

\* _download_gitignore(name, cb) up to https.get (lib.js:832-865): the url
\* is that of the catalog entry of the name, or of the system entry of the
\* manager and of the repository package; without a url nothing is started
\* and cb is not called. Every url of the catalog is a github url.
DownloadGitignore(s, k) ==
    LET r == GetIndexPair(s, k.name)
        s0 == [s EXCEPT !.index_cache = r.cache]
        found == /\ r.pair[1] <= Len(s.catalog)
                 /\ r.pair[2] <= Len(s.catalog[r.pair[1]].extensions)
    IN  IF r.pair # NoPair
        THEN IF found /\ s.catalog[r.pair[1]].extensions[r.pair[2]].repository
                            # "undefined"
             THEN Pend(s0, [k EXCEPT !.k = "https_get"])
             ELSE [s0 EXCEPT !.thrown = TRUE]
        ELSE IF k.name \in {MANAGER_NAME, REPOS_NAME}
             THEN Pend(s0, [k EXCEPT !.k = "https_get"])
             ELSE s0

\* fs.readFile(npmignore) of _read_npmignore (lib.js:793-805)
ReadNpmignoreDone ==
    \E k \in pending, err \in BOOLEAN :
        /\ k.k = "read_npmignore" /\ Delivery(k)
        /\ Commit(IF err THEN DownloadGitignore(Take(k), k)
                  ELSE Restore(Take(k), k))

\* https.get of _download_gitignore (lib.js:865-886): status 200 and 404 go
\* on to _restore, any other status reads the undeclared "data" and throws,
\* a network error is logged only
HttpsGetDone ==
    \E k \in pending :
        /\ k.k = "https_get" /\ Delivery(k)
        /\ \E status \in {"200", "404", "500", "error"} :
             Commit(CASE status \in {"200", "404"} -> Restore(Take(k), k)
                      [] status = "500" -> [Take(k) EXCEPT !.thrown = TRUE]
                      [] OTHER -> Take(k))

\* tar.extract callback of _restore (lib.js:822-826)
TarExtractDone ==
    \E k \in pending :
        /\ k.k = "tar_extract" /\ Delivery(k)
        /\ Commit(CallPostCb(Take(k), k))

\* fs.readFile(.npmignore) of _backup with _create_archive (lib.js:808-817,
\* 890-915): without ignore file, or with none of its paths present, the
\* directory is clean and the update runs at once; else tar.create runs
NpmUpdate(s, k, options) ==
    Pend(Cmd(s, "npm update", k.name),
         [k EXCEPT !.k = "npm_update", !.options = options])

\* ------------------------------------------------------------------------
\* _get_name and the branch of _download_gitignore over the text of a url

\* String.prototype.split(sep)
RECURSIVE SplitOn(_, _)
SplitOn(text, sep) ==
    IF \A i \in 1..Len(text) : text[i] # sep THEN <<text>>
    ELSE LET i == CHOOSE j \in 1..Len(text) :
                      /\ text[j] = sep
                      /\ \A h \in 1..(j - 1) : text[h] # sep
         IN  <<SubSeq(text, 1, i - 1)>> \o SplitOn(SubSeq(text, i + 1, Len(text)), sep)

\* substrings[2].indexOf('git') === 0
StartsWithGit(text) == text # <<>> /\ Head(text) \in {"git", "github"}

\* _get_name(extension) for an entry with a repository, lib.js:601-612;
\* reading a property of undefined raises a TypeError
GetNameOfUrl(text) ==
    LET by_colon == SplitOn(text, ":")
    IN  IF by_colon[1] # <<"https">> THEN Undefined
        ELSE IF Len(by_colon) < 2 THEN TypeError
        ELSE LET by_dot == SplitOn(by_colon[2], ".")
             IN  IF Len(by_dot) < 3 THEN TypeError
                 ELSE IF ~StartsWithGit(by_dot[3]) THEN Undefined
                 ELSE LET by_slash == SplitOn(by_dot[2], "/")
                      IN  IF Len(by_slash) < 3 THEN Undefined
                          ELSE Text(by_slash[3])

\* git.includes('github')
IncludesGithub(text) == \E i \in 1..Len(text) : text[i] = "github"

\* _download_gitignore, lib.js:845-861: the branch of the ignore file, for
\* a url that names github; no download is tried for another url
BranchOf(text, name, committish) ==
    IF ~IncludesGithub(text) THEN Undefined
    ELSE LET parts == SplitOn(text, "#")
         IN  IF Len(parts) > 1 THEN Text(parts[2])
             ELSE IF name = MANAGER_NAME /\ committish # "undefined"
                  THEN Text(<<committish>>)
                  ELSE Text(<<"master">>)

\* _get_name(extensions[j]) on the entry; an uncaught TypeError ends the
\* process
GetNameCall ==
    /\ HostCall("get_extensions_by_category", "", "none")
    /\ derived_name = NotCalled
    /\ LET name == GetNameOfUrl(UrlText(entry_url))
       IN  Commit([Cur EXCEPT !.derived_name = name,
                              !.thrown = (name = TypeError)])

\* _download_gitignore(name, cb) up to the url of the request
ResolveBranch ==
    \E name \in {MANAGER_NAME, "slug"} :
        /\ HostCall("download_gitignore", name, "none")
        /\ branch = NotCalled
        /\ Commit([Cur EXCEPT !.branch =
                       BranchOf(UrlText(entry_url), name, package_json)])

\* ------------------------------------------------------------------------
\* _create_archive(data, options, cb), lib.js:890-915. A text is a sequence
\* of tokens: a blank, a slash, a hash, a newline, or a word taken whole.

\* data.split('\n')
RECURSIVE Split(_)
Split(data) ==
    IF \A i \in 1..Len(data) : data[i] # "\n" THEN <<data>>
    ELSE LET i == CHOOSE j \in 1..Len(data) :
                      /\ data[j] = "\n"
                      /\ \A h \in 1..(j - 1) : data[h] # "\n"
         IN  <<SubSeq(data, 1, i - 1)>> \o Split(SubSeq(data, i + 1, Len(data)))

\* String.prototype.trim()
RECURSIVE Trim(_)
Trim(line) ==
    IF line = <<>> THEN line
    ELSE IF Head(line) = " " THEN Trim(Tail(line))
    ELSE IF line[Len(line)] = " " THEN Trim(SubSeq(line, 1, Len(line) - 1))
    ELSE line

\* if (line[line.length - 1] == '/') line = line.substring(0, line.length - 1)
StripSlash(line) ==
    IF line # <<>> /\ line[Len(line)] = "/"
    THEN SubSeq(line, 1, Len(line) - 1) ELSE line

\* The loop of a _create_archive that does not ask whether the path exists
RECURSIVE GlobsUnchecked(_, _)
GlobsUnchecked(lines, paths) ==
    IF lines = <<>> THEN <<>>
    ELSE LET line == StripSlash(Trim(Head(lines)))
         IN  (IF line # <<>> /\ line # <<"node_modules">> /\ line[1] # "#"
              THEN <<line>> ELSE <<>>) \o GlobsUnchecked(Tail(lines), paths)

\* The loop over the lines, lib.js:894-907
RECURSIVE Globs(_, _)
Globs(lines, paths) ==
    IF lines = <<>> THEN <<>>
    ELSE LET line == StripSlash(Trim(Head(lines)))
         IN  (IF line # <<>> /\ line # <<"node_modules">> /\ line[1] # "#"
                 /\ line \in paths
              THEN <<line>> ELSE <<>>) \o Globs(Tail(lines), paths)

CreateArchive(s, k, data, paths) ==
    LET list == Globs(Split(data), paths)
        s1 == [s EXCEPT !.globs = list]
    IN  IF list # <<>>
        THEN Pend(Cmd(s1, "tar.create", k.name), [k EXCEPT !.k = "tar_create"])
        ELSE NpmUpdate(s1, k, "none")

\* fs.readFile callback of _backup, lib.js:811-815, reading the file as it
\* is on disk
BackupReadFile ==
    \E k \in pending :
        /\ k.k = "backup_read" /\ Delivery(k)
        /\ Commit(CreateArchive(Take(k), k, ignore_data, cwd_paths))

\* The same callback with the disk left open: the file is missing, lists no
\* path that exists, or lists one
BackupReadDone ==
    \E k \in pending, r \in {"no file", "no paths", "paths"} :
        /\ k.k = "backup_read" /\ Delivery(k)
        /\ Commit(IF r = "paths"
                  THEN Pend(Cmd(Take(k), "tar.create", k.name),
                            [k EXCEPT !.k = "tar_create"])
                  ELSE NpmUpdate(Take(k), k, "none"))

\* tar.create callback: the backup callback of _update, with clean
\* undefined when the archive was written and with clean the error, which is
\* truthy, when it was not
TarCreateDone ==
    \E k \in pending, err \in BOOLEAN :
        /\ k.k = "tar_create" /\ Delivery(k)
        /\ Commit(IF err THEN NpmUpdate(Take(k), k, "none")
                  ELSE NpmUpdate([Take(k) EXCEPT !.archived = @ \cup {k.name}],
                                 k, "archive"))

NpmUpdateDone ==
    \E k \in pending, err \in BOOLEAN :
        /\ k.k = "npm_update"
        /\ Delivery(k)
        /\ Commit(NpmUpdateResult(k, err))

DockerUpdateDone ==
    \E k \in pending, err \in BOOLEAN :
        /\ k.k = "docker_update"
        /\ Delivery(k)
        /\ Commit(DockerUpdateResult(k, err))

NpmUninstallDone ==
    \E k \in pending, err \in BOOLEAN :
        /\ k.k = "npm_uninstall"
        /\ Delivery(k)
        /\ Commit(NpmUninstallResult(k, err))

DockerUninstallDone ==
    \E k \in pending, err \in BOOLEAN :
        /\ k.k = "docker_uninstall"
        /\ Delivery(k)
        /\ Commit(DockerUninstallResult(k, err))

\* The child stopped by runner.stop / runner.terminate has ended: the
\* on-exit callback of _start runs, then the callback given to _stop
RunnerExitDone ==
    \E k \in pending :
        /\ k.k = "runner_exit" /\ Delivery(k)
        /\ Commit(AfterStop(OnExit(Take(k), k.name, k.user, "null"),
                            k.name, k.then, k.cb, k.log))

\* docker.stop / docker.terminate callback of _stop (lib.js:1046-1056)
DockerStopDone ==
    \E k \in pending :
        /\ k.k = "docker_stop" /\ Delivery(k)
        /\ Commit(AfterStop(
                      SetStatus([Take(k) EXCEPT !.proc[k.name] =
                                    IF k.user THEN "stopped" ELSE "terminated"],
                                IF k.user THEN "Stopped"
                                ELSE "Process terminated", k.name, FALSE),
                      k.name, k.then, k.cb, k.log))

\* runner.prepare_exit callback of _terminate (lib.js:1091-1097)
PrepareExitDone ==
    \E k \in pending :
        /\ k.k = "prepare_exit" /\ Delivery(k)
        /\ Commit([Take(k) EXCEPT !.exit_code = k.count])

\* docker.query_updates callback of _query_updates (lib.js:1278-1286); it
\* shares the results object with the "npm outdated" callback
DockerUpdates(s, k, updates) ==
    LET kept == (updates \ {MANAGER_NAME}) \cap Resolvable(s)
        s1 == [s EXCEPT !.updates_list = @ \cup kept]
        km == [k EXCEPT !.k = "npm_outdated"]
    IN  IF km \in s1.pending
        THEN [s1 EXCEPT !.pending = (@ \ {km}) \cup
                 {[km EXCEPT !.res = AddKeys(@, SetToSeq(kept))]}]
        ELSE s1

DockerQueryUpdatesDone ==
    \E k \in pending :
        /\ k.k = "docker_query_updates" /\ Delivery(k)
        /\ \E updates \in SUBSET (docker_installed \cup {MANAGER_NAME}) :
               /\ k.name # "" => updates \subseteq {k.name}
               /\ Commit(DockerUpdates(Take(k), k, updates))

\* exec('npm outdated -g --depth=0') callback of _query_updates
\* (lib.js:1297-1340).  out: "stderr", or the names of the output lines; no
\* line is the empty output, where the installed packages are taken over in
\* the key order of npm_installed
\* ("npm outdated <name>" lists at most the package asked for)
Adverts ==
    {a \in UNION {[1..n -> RepoNames] : n \in 0..MaxAdvert} :
        \A i, j \in 1..Len(a) : i # j => a[i] # a[j]}

\* cb(results): _queue_updates, or the callback of _load_repository, which
\* hands the categories to the host, or none
AfterQuery(s, k, results) ==
    CASE k.cb = "queue_updates" -> QueueUpdates(s, results)
      [] k.cb = "repository_cb" ->
            [s EXCEPT !.repos = CatalogNames(s.catalog)]
      [] OTHER -> s

Outdated(s, k, lines) ==
    IF lines # <<>> THEN Keep(lines, Resolvable(s))
    ELSE IF k.name # ""
    THEN IF k.name \in SeqToSet(s.npm_installed) THEN <<k.name>> ELSE <<>>
    ELSE ObjectKeys(s.npm_installed)

NpmOutdated(s, k, lines) ==
    LET found == Outdated(s, k, lines)
    IN  AfterQuery([s EXCEPT !.updates_list = @ \cup SeqToSet(found)],
                   k, AddKeys(k.res, found))

NpmOutdatedOn(k, lines) ==
    /\ k.k = "npm_outdated" /\ Delivery(k)
    /\ k.name # "" => SeqToSet(lines) \subseteq {k.name}
    /\ Commit(NpmOutdated(Take(k), k, lines))

NpmOutdatedDone ==
    \E k \in pending :
        /\ k.k = "npm_outdated"
        /\ \E lines \in (IF k.name = "" THEN Adverts
                         ELSE {a \in {<<>>, <<k.name>>} : a \in Adverts}) :
               NpmOutdatedOn(k, lines)

NpmOutdatedFailed ==
    \E k \in pending :
        /\ k.k = "npm_outdated" /\ Delivery(k)
        /\ Commit(AfterQuery(SetStatus(Take(k), "Updates query failed", "", TRUE),
                             k, k.res))

ReaddirDone ==
    \E k \in pending :
        /\ k.k = "readdir" /\ Delivery(k)
        /\ Commit(ReaddirResult(Take(k)))

\* ------------------------------------------------------------------------
Next ==
    \/ ReqInstall \/ ReqUpdate \/ ReqUninstall
    \/ ReqStart \/ ReqRestart \/ ReqStop
    \/ UpdateAll \/ RestartManager \/ SetLogState \/ Signal \/ ChildExit
    \/ NpmInstallDone \/ DockerInstallDone \/ QueryInstallsDone
    \/ PeerDepDone \/ ReadNpmignoreDone \/ HttpsGetDone \/ TarExtractDone
    \/ BackupReadDone \/ TarCreateDone \/ NpmUpdateDone \/ DockerUpdateDone
    \/ NpmUninstallDone \/ DockerUninstallDone
    \/ RunnerExitDone \/ DockerStopDone \/ PrepareExitDone
    \/ DockerQueryUpdatesDone \/ NpmOutdatedDone \/ NpmOutdatedFailed
    \/ ReaddirDone

Spec == Init /\ [][Next]_vars

\* The callbacks of the jobs and of the calls they start
JobCallbacks ==
    \/ NpmInstallDone \/ DockerInstallDone \/ QueryInstallsDone
    \/ PeerDepDone \/ ReadNpmignoreDone \/ HttpsGetDone \/ TarExtractDone
    \/ BackupReadDone \/ TarCreateDone \/ NpmUpdateDone \/ DockerUpdateDone
    \/ NpmUninstallDone \/ DockerUninstallDone
    \/ RunnerExitDone \/ DockerStopDone \/ PrepareExitDone
    \/ DockerQueryUpdatesDone \/ NpmOutdatedDone \/ NpmOutdatedFailed

\* The scheduler under install, update and uninstall requests, with a
\* runner, every installed extension advertised as updatable
InitQueue == InitWith(SmallConfig, TRUE, FALSE, TRUE)
NextQueue == ReqInstall \/ ReqUpdate \/ ReqUninstall \/ JobCallbacks
SpecQueue == InitQueue /\ [][NextQueue]_vars

\* The ways the manager process ends: self-update, restart, signal
InitExit == \E r \in BOOLEAN, l \in BOOLEAN : InitWith(ExitConfig, r, l, TRUE)
NextExit ==
    \/ ReqUpdate \/ ReqRestart \/ RestartManager \/ SetLogState \/ Signal
    \/ BackupReadDone \/ TarCreateDone \/ NpmUpdateDone
    \/ QueryInstallsDone \/ PeerDepDone \/ ReadNpmignoreDone \/ HttpsGetDone
    \/ TarExtractDone \/ NpmUninstallDone \/ PrepareExitDone
    \/ NpmOutdatedDone \/ NpmOutdatedFailed
SpecExit == InitExit /\ [][NextExit]_vars

\* Bulk updates: update_all with the jobs it queues
InitUpdates == InitWith(UpdatesConfig, TRUE, FALSE, FALSE)
\* The host asks for the bulk update while nothing is outstanding
UpdateAllWhenIdle == pending = {} /\ UpdateAll
NextUpdates ==
    \/ UpdateAllWhenIdle
    \/ DockerQueryUpdatesDone \/ NpmOutdatedDone \/ NpmOutdatedFailed
    \/ RunnerExitDone \/ DockerStopDone \/ BackupReadDone \/ TarCreateDone
    \/ NpmUpdateDone \/ DockerUpdateDone \/ QueryInstallsDone \/ PeerDepDone
    \/ ReadNpmignoreDone \/ HttpsGetDone \/ TarExtractDone
    \/ NpmUninstallDone \/ PrepareExitDone
SpecUpdates == InitUpdates /\ [][NextUpdates]_vars

\* Installs and bulk updates under every setting of the feature flags, with
\* and without a container backend; the catalog offers a package, an image
\* and an extension that declares both
FeaturesConfig ==
    [repos |-> {MANAGER_NAME, UPDATER_NAME, "ext", "img", "dual"},
     npm |-> <<MANAGER_NAME, UPDATER_NAME>>,
     docker |-> {},
     running |-> {MANAGER_NAME},
     logging |-> {}]
InitFlags ==
    \E f \in FeatureSets, version \in BOOLEAN :
        InitFeatures(FeaturesConfig, TRUE, FALSE, FALSE, f, version)
NextFlags ==
    \/ ReqInstall \/ UpdateAllWhenIdle
    \/ NpmInstallDone \/ DockerInstallDone \/ QueryInstallsDone
    \/ PeerDepDone \/ ReadNpmignoreDone \/ HttpsGetDone \/ TarExtractDone
    \/ BackupReadDone \/ TarCreateDone \/ NpmUpdateDone \/ DockerUpdateDone
    \/ NpmUninstallDone
    \/ RunnerExitDone \/ DockerStopDone \/ PrepareExitDone
    \/ DockerQueryUpdatesDone \/ NpmOutdatedDone \/ NpmOutdatedFailed
SpecFlags == InitFlags /\ [][NextFlags]_vars

\* Bulk updates with the auto_update flag set to 'off' or not set, called at
\* any moment of the jobs the host asks for
InitAuto ==
    \E f \in {NoFeatures, [NoFeatures EXCEPT !.auto_update = "off"]} :
        InitFeatures(ExitConfig, TRUE, FALSE, TRUE, f, FALSE)
NextAuto ==
    \/ UpdateAll \/ ReqUpdate
    \/ BackupReadDone \/ TarCreateDone \/ NpmUpdateDone \/ QueryInstallsDone
    \/ PeerDepDone \/ ReadNpmignoreDone \/ HttpsGetDone \/ TarExtractDone
    \/ NpmUninstallDone \/ PrepareExitDone
    \/ NpmOutdatedDone \/ NpmOutdatedFailed
SpecAuto == InitAuto /\ [][NextAuto]_vars

\* Reloads of the catalog: the repository package is installed again, with
\* every choice of manifest files on the disk
CatalogConfig ==
    [repos |-> {MANAGER_NAME, UPDATER_NAME, REPOS_NAME, "ext", "img"},
     npm |-> <<MANAGER_NAME, REPOS_NAME, UPDATER_NAME>>,
     docker |-> {},
     running |-> {MANAGER_NAME},
     logging |-> {}]
\* The flags that matter to the catalog, and whether a container backend was
\* found
CatalogFlags ==
    {<<NoFeatures, FALSE>>, <<NoFeatures, TRUE>>,
     <<[NoFeatures EXCEPT !.npm_install = "off"], TRUE>>,
     <<[NoFeatures EXCEPT !.docker_install = "off"], TRUE>>}
InitCatalog ==
    \E fv \in CatalogFlags, main \in MainFiles, local \in LocalDirs :
        InitFiles(CatalogConfig, TRUE, FALSE, FALSE, fv[1], fv[2], main, local)
ReqInstallRepository == ReqInstallOn(REPOS_NAME, "none")
NextCatalog ==
    \/ ReqInstallRepository
    \/ NpmInstallDone \/ QueryInstallsDone \/ PeerDepDone
    \/ ReadNpmignoreDone \/ HttpsGetDone
    \/ NpmUninstallDone \/ ReaddirDone
    \/ NpmOutdatedDone \/ NpmOutdatedFailed
SpecCatalog == InitCatalog /\ [][NextCatalog]_vars

\* Reloads of the catalog with a package and a container installed that the
\* new manifest may no longer list
ReloadConfig ==
    [repos |-> {MANAGER_NAME, UPDATER_NAME, REPOS_NAME, "ext", "img"},
     npm |-> <<"ext", MANAGER_NAME, REPOS_NAME, UPDATER_NAME>>,
     docker |-> {"img"},
     running |-> {MANAGER_NAME},
     logging |-> {}]
InitReload ==
    \E main \in MainFiles, err \in BOOLEAN :
        InitFiles(ReloadConfig, TRUE, FALSE, FALSE, NoFeatures, TRUE, main,
                  [err |-> err, files |-> <<>>])
NextReload == NextCatalog \/ DockerQueryUpdatesDone
SpecReload == InitReload /\ [][NextReload]_vars

\* An extension that declares both kinds and was installed as a package,
\* with the container backend preferred (docker_install 'prio') or not
DualConfig ==
    [repos |-> {MANAGER_NAME, UPDATER_NAME, "dual"},
     npm |-> <<"dual", MANAGER_NAME, UPDATER_NAME>>,
     docker |-> {},
     running |-> {MANAGER_NAME, "dual"},
     logging |-> {}]
InitDual ==
    \E f \in {NoFeatures, [NoFeatures EXCEPT !.docker_install = "prio"]} :
        InitFeatures(DualConfig, TRUE, FALSE, TRUE, f, TRUE)
NextDual ==
    \/ ReqInstall \/ ReqUpdate \/ ReqUninstall
    \/ NpmInstallDone \/ DockerInstallDone \/ QueryInstallsDone
    \/ PeerDepDone \/ ReadNpmignoreDone \/ HttpsGetDone \/ TarExtractDone
    \/ BackupReadDone \/ TarCreateDone \/ NpmUpdateDone
    \/ NpmUninstallDone \/ DockerUninstallDone
    \/ RunnerExitDone \/ DockerStopDone \/ PrepareExitDone
    \/ DockerQueryUpdatesDone \/ NpmOutdatedDone \/ NpmOutdatedFailed
SpecDual == InitDual /\ [][NextDual]_vars

\* The backup of an update over every short ignore file, and over the file
\* with the lines data/, cache.db, #comment, node_modules
MaxData == 3
Tokens == {" ", "/", "#", "\n", "data", "cache.db", "node_modules"}
ExampleFile ==
    <<"data", "/", "\n", "cache.db", "\n", "#", "comment", "\n",
      "node_modules">>
IgnoreFiles == SeqsUpTo(Tokens, MaxData) \cup {ExampleFile}
\* The directory with only data/ and cache.db
ExampleDir == {<<"data">>, <<"data", "/">>, <<"cache.db">>}
Directories ==
    {{}, ExampleDir,
     ExampleDir \cup {<<"node_modules">>, <<"node_modules", "/">>,
                      <<"#", "data">>, <<"/">>}}
ArchiveConfig ==
    [repos |-> {MANAGER_NAME, UPDATER_NAME, "2048"},
     npm |-> <<"2048", MANAGER_NAME, UPDATER_NAME>>,
     docker |-> {},
     running |-> {MANAGER_NAME},
     logging |-> {}]
InitArchive ==
    \E data \in IgnoreFiles, paths \in Directories :
        /\ InitProgram(ArchiveConfig, TRUE, FALSE, TRUE, NoFeatures, FALSE,
                       File(TRUE, "missing", <<>>),
                       [err |-> TRUE, files |-> <<>>])
        /\ InitIgnoreFile(data, paths)
        /\ InitLookup(PlainUrl, "undefined")
ReqUpdateArchived == ReqUpdateOn("2048")
NextArchive == ReqUpdateArchived \/ BackupReadFile
SpecArchive == InitArchive /\ [][NextArchive]_vars

\* Name and branch derived from the urls a manifest may hold
Schemes == {<<"https">>, <<"http">>}
Hosts ==
    {<<"github", ".", "com">>, <<"www", ".", "github", ".", "com">>,
     <<"localhost">>, <<"gitlab", ".", "com">>}
Paths == {<<"owner", "/", "slug">>, <<"slug">>}
Suffixes == {<<".", "git">>, <<>>}
Committishes == {<<>>, <<"#", "dev">>}
Urls ==
    {Url(s, h, p, x, c) : s \in Schemes, h \in Hosts, p \in Paths,
                          x \in Suffixes, c \in Committishes}
InitName ==
    \E u \in Urls, committish \in {"undefined", "v1"} :
        /\ InitProgram(FreshConfig, FALSE, FALSE, FALSE, NoFeatures, FALSE,
                       File(TRUE, "missing", <<>>),
                       [err |-> TRUE, files |-> <<>>])
        /\ InitIgnoreFile(<<>>, {})
        /\ InitLookup(u, committish)
NextName == GetNameCall \/ ResolveBranch
SpecName == InitName /\ [][NextName]_vars

\* Logging and child processes: a package and an image run and may log;
\* the host starts, stops and restarts them, asks for updates and for the
\* restart of the manager, children end by themselves, a signal arrives
LogsConfig ==
    [repos |-> {MANAGER_NAME, UPDATER_NAME, "ext", "img"},
     npm |-> <<"ext", MANAGER_NAME, UPDATER_NAME>>,
     docker |-> ImageNames,
     running |-> {MANAGER_NAME, "ext", "img"},
     logging |-> {MANAGER_NAME, "ext", "img"}]
InitLogs == \E l \in BOOLEAN : InitWith(LogsConfig, TRUE, l, TRUE)
NextLogs ==
    \/ ReqStart \/ ReqRestart \/ ReqStop \/ ReqUpdate
    \/ RestartManager \/ SetLogState \/ Signal \/ ChildExit
    \/ RunnerExitDone \/ DockerStopDone \/ BackupReadDone \/ TarCreateDone
    \/ NpmUpdateDone \/ DockerUpdateDone \/ QueryInstallsDone \/ PeerDepDone
    \/ ReadNpmignoreDone \/ HttpsGetDone \/ TarExtractDone
    \/ NpmUninstallDone \/ PrepareExitDone
    \/ DockerQueryUpdatesDone \/ NpmOutdatedDone \/ NpmOutdatedFailed
SpecLogs == InitLogs /\ [][NextLogs]_vars

\* The ways to _terminate with a package that may log: restarts with and
\* without logging, the self-update of the manager with no updater
\* installed, a signal, a child that ends by itself
TerminateConfig ==
    [repos |-> {MANAGER_NAME, UPDATER_NAME, "ext"},
     npm |-> <<"ext", MANAGER_NAME>>,
     docker |-> {},
     running |-> {MANAGER_NAME, "ext"},
     logging |-> {MANAGER_NAME, "ext"}]
InitTerminate == \E l \in BOOLEAN : InitWith(TerminateConfig, TRUE, l, TRUE)
\* perform_action(Update, manager), the self-update being advertised
ReqSelfUpdate == MANAGER_NAME \in updates_list /\ ReqUpdateOn(MANAGER_NAME)
NextTerminate ==
    \/ ReqRestart \/ ReqSelfUpdate \/ RestartManager \/ SetLogState
    \/ Signal \/ ChildExit \/ RunnerExitDone \/ PrepareExitDone
SpecTerminate == InitTerminate /\ [][NextTerminate]_vars

\* An install of the repository package beside the self-update of the
\* manager, which goes through the Update of the updater
InitPending ==
    \E main \in MainFiles :
        InitFiles(CatalogConfig, TRUE, FALSE, TRUE, NoFeatures, FALSE, main,
                  [err |-> TRUE, files |-> <<>>])
NextPending ==
    \/ ReqInstallRepository \/ ReqSelfUpdate
    \/ NpmInstallDone \/ QueryInstallsDone \/ PeerDepDone
    \/ ReadNpmignoreDone \/ HttpsGetDone \/ TarExtractDone
    \/ BackupReadDone \/ TarCreateDone \/ NpmUpdateDone
    \/ NpmUninstallDone \/ PrepareExitDone \/ ReaddirDone
    \/ NpmOutdatedDone \/ NpmOutdatedFailed
SpecPending == InitPending /\ [][NextPending]_vars

TypeOK ==
    /\ SeqToSet(npm_installed) \subseteq Names
    /\ docker_installed \subseteq Names
    /\ updates_list \subseteq Names
    /\ session_error \in {"undefined", "false", "true"}
    /\ exit_code \in {NotRunning, 0, 1, perform_update, perform_restart}

\* ------------------------------------------------------------------------
\* Properties of the scheduler

\* The step dispatched a job: _perform_action started the job inflight' ends with
Dispatched == inflight' # inflight /\ inflight' # <<>>

\* C1: at most one queued job is dispatched and not completed, and while the
\* queue is non-empty that job is its first entry in insertion order
C1_SingleFlightHead ==
    /\ Len(inflight) <= 1
    /\ action_queue # <<>> => inflight = <<action_queue[1].name>>
    /\ action_queue = <<>> => inflight = <<>>

\* C2: _queue_action for a name that has an entry in the queue changes
\* nothing: the entries and their order stay, no job is dispatched and no
\* call is started.  perform_action Install and Uninstall call it once;
\* perform_action Update calls it through _queue_updates, which may go on
\* to enqueue the updater and the manager behind the entries that stay.
C2_ReenqueueNoop ==
    [][(/\ requests' = requests + 1
        /\ last_call'.op \in {"Install", "Uninstall", "Update"}
        /\ last_call'.name \in QueueNames(action_queue))
       => (/\ Len(action_queue') >= Len(action_queue)
           /\ SubSeq(action_queue', 1, Len(action_queue)) = action_queue
           /\ inflight' = inflight
           /\ pending' = pending
           /\ last_call'.op # "Update" => action_queue' = action_queue)]_vars

\* a second install request for the image, with other options, was made
\* while its first install was queued; the entry kept its options
C2_Witness ==
    /\ last_call = Call("Install", "img", "opts")
    /\ action_queue # <<>>
    /\ action_queue[1] = [name |-> "img", action |-> ACTION_INSTALL,
                          options |-> "none"]

\* C3: every dispatch starts the entry that was inserted first among the
\* entries of the queue
C3_InsertionOrder ==
    [][Dispatched => inflight'[Len(inflight')] = action_queue'[1].name]_vars

\* The calls a job can be waiting for
JobCalls ==
    {"npm_install", "docker_install", "query_installs", "peer_dep",
     "read_npmignore", "https_get", "tar_extract", "backup_read",
     "tar_create", "npm_update", "docker_update", "npm_uninstall",
     "docker_uninstall", "runner_exit", "docker_stop"}

Waiting(name) ==
    \E k \in pending : k.name = name /\ k.k \in JobCalls /\ k.cb # "none"

\* C4: a dispatched job of an extension goes on to its completion once its
\* calls call back; a job in flight is therefore always waiting for a call
C4_JobGoesOn ==
    \A i \in 1..Len(inflight) :
        (Alive /\ inflight[i] # MANAGER_NAME) => Waiting(inflight[i])

\* C7: at most one job failure of a session reaches the status observer
C7_OneErrorPerSession == session_stats.notified <= 1

\* C8: when the install of a peer dependency of extension X fails, the queue
\* holds one entry for X, an Uninstall, right after the failure was handled,
\* and no call of the converted job is left that would complete it
C8_PeerFailureUninstalls ==
    [][\A k \in pending :
         (k.name # MANAGER_NAME /\ PeerDepDoneOn(k, TRUE))
         => /\ Cardinality({i \in 1..Len(action_queue') :
                              action_queue'[i].name = k.name}) = 1
            /\ Entry(action_queue', k.name).action = ACTION_UNINSTALL
            /\ \A c \in pending' :
                 c.name = k.name => c.cb \notin {"installed", "updated"}]_vars

\* one install request was made, for "2048"; its entry is an Uninstall now
C8_Witness ==
    /\ requests = 1
    /\ last_call = Call("Install", "2048", "none")
    /\ action_queue = <<[name |-> "2048", action |-> ACTION_UNINSTALL,
                         options |-> "none"]>>

\* The step completed the Uninstall job of name: its entry left the queue
UninstallCompleted(name) ==
    /\ name \in QueueNames(action_queue)
    /\ Entry(action_queue, name).action = ACTION_UNINSTALL
    /\ name \in SeqToSet(inflight)
    /\ name \notin QueueNames(action_queue')

\* C10: once an Uninstall job has completed, its name is in none of
\* npm_installed, docker_installed, updates_list and logs_list
C10_UninstallDropsAll ==
    [][\A name \in Names :
         UninstallCompleted(name)
         => /\ name \notin SeqToSet(npm_installed')
            /\ name \notin docker_installed'
            /\ name \notin updates_list'
            /\ logs_list'[name] = "absent"]_vars

\* The names of the entries the step appended to the queue
Enqueued ==
    NamesOf(SubSeq(action_queue', Len(action_queue) + 1, Len(action_queue')))

\* C5: the entries _queue_updates appends for an advertisement with the
\* manager are the other advertised names in advertisement order, then the
\* updater if it is advertised (whether the map or updates_list counts as
\* the advertisement is left open), then the manager
C5_ManagerActionsLast ==
    [][\A k \in pending, lines \in Adverts :
         (k.cb = "queue_updates" /\ NpmOutdatedOn(k, lines))
         => LET adv == ObjectKeys(AddKeys(k.res, Outdated(Cur, k, lines)))
                free == Names \ QueueNames(action_queue)
                others == Keep(adv, free \ {MANAGER_NAME, UPDATER_NAME})
                mgr == Keep(adv, free \cap {MANAGER_NAME})
            IN  MANAGER_NAME \in SeqToSet(adv)
                => /\ Enqueued \in {others \o mgr,
                                    others \o <<UPDATER_NAME>> \o mgr}
                   /\ UPDATER_NAME \in SeqToSet(adv) \cap free
                      => UPDATER_NAME \in SeqToSet(Enqueued)]_vars

\* The step dispatches the manager's job
ManagerDispatched == Dispatched /\ inflight'[Len(inflight')] = MANAGER_NAME

\* _terminate(code) has been called with a runner: the exit waits for
\* runner.prepare_exit
ExitRequested(code) ==
    \E k \in pending : k.k = "prepare_exit" /\ k.count = code

\* "npm update -g <name>" is running
NpmUpdateRuns(name) ==
    \E k \in pending : k.k = "npm_update" /\ k.name = name

PlainRestart ==
    /\ requests' = requests + 1
    /\ \/ last_call'.op = "restart_manager"
       \/ last_call'.op = "Restart" /\ last_call'.name = MANAGER_NAME
       \/ /\ last_call'.op = "set_log_state"
          /\ (last_call'.arg = "true") # logging_active

JobCompleted(name, action) ==
    /\ name \in QueueNames(action_queue)
    /\ Entry(action_queue, name).action = action
    /\ name \in SeqToSet(inflight)
    /\ name \notin QueueNames(action_queue')

\* C11: when the Update job of an extension completes, its process runs
\* again unless the runner state was 'stopped' (the job itself only
\* terminates the process, which gives the state 'terminated')
C11_ResumedAfterUpdate ==
    [][\A name \in Names \ {MANAGER_NAME} :
         (JobCompleted(name, ACTION_UPDATE) /\ proc[name] # "stopped")
         => proc'[name] = "running"]_vars

SuccessStatuses == {"Installed", "Updated", "Uninstalled"}

\* C12: when the backend command of a job reports a failure, the handler
\* passes an error status about the job's extension to _set_status, passes
\* no success status about it, and removes the job's entry
C12_FailureReported ==
    [][\A k \in pending :
         (k.k \in BackendCalls /\ BackendDoneOn(k, TRUE))
         => LET out == BackendDone(k, TRUE).status_out
            IN  /\ \E i \in 1..Len(out) : out[i].err /\ out[i].name = k.name
                /\ \A i \in 1..Len(out) :
                     out[i].name = k.name => out[i].msg \notin SuccessStatuses
                /\ k.name \notin QueueNames(action_queue')]_vars

\* ------------------------------------------------------------------------
\* Properties of the feature flags

\* C13: a backend disabled by its feature flag is not used to install: with
\* docker_install 'off' no step starts docker.install, with npm_install
\* 'off' no step starts 'npm install -g' of an extension
C13_DisabledBackendUnused ==
    [][/\ features.docker_install = "off"
          => \A k \in pending' \ pending : k.k # "docker_install"
       /\ features.npm_install = "off"
          => \A k \in pending' \ pending : k.k # "npm_install"]_vars

\* C14: with auto_update 'off', update_all starts no query and leaves
\* action_queue, updates_list and self_update_pending as they are
C14_AutoUpdateOff ==
    [][(features.auto_update = "off" /\ UpdateAll)
       => /\ pending' = pending
          /\ action_queue' = action_queue
          /\ updates_list' = updates_list
          /\ self_update_pending' = self_update_pending]_vars

\* update_all was called with the flag 'off' while a job was in flight
C14_Witness ==
    /\ features.auto_update = "off"
    /\ last_call.op = "update_all"
    /\ action_queue # <<>>

\* ------------------------------------------------------------------------
\* Properties of the catalog

\* The step is the callback k of fs.readdir, which completes a
\* _load_repository
LoadCompletedBy(k) ==
    k.k = "readdir" /\ Delivery(k) /\ Commit(ReaddirResult(Take(k)))

\* The status messages of that callback
LoadStatus(k) == ReaddirResult(Take(k)).status_out

\* C15: when the main manifest cannot be read or parsed the load leaves the
\* catalog empty and reports the error 'Extension Repository not found',
\* whatever the local manifests are; when only local manifests cannot be
\* read or parsed the load reports no error
C15_MainManifestUnreadable ==
    [][\A k \in pending :
         LoadCompletedBy(k)
         => /\ main_repo.state # "ok"
               => /\ catalog' = <<>>
                  /\ \E i \in 1..Len(LoadStatus(k)) :
                        /\ LoadStatus(k)[i].err
                        /\ LoadStatus(k)[i].msg
                              = "Extension Repository not found"
            /\ main_repo.state = "ok"
               => /\ exit_code' = exit_code
                  /\ \A i \in 1..Len(LoadStatus(k)) :
                        ~LoadStatus(k)[i].err]_vars

\* The install-source kind of the entry is enabled
KindEnabled(extension) ==
    \/ extension.repository # "undefined" /\ features.npm_install # "off"
    \/ /\ extension.image # "undefined"
       /\ docker_version /\ features.docker_install # "off"

\* C16: after every load every entry of every category of the catalog has
\* an enabled install-source kind, and no category is empty
C16_KeptEntriesEnabled ==
    [][\A k \in pending :
         LoadCompletedBy(k)
         => \A i \in 1..Len(catalog') :
              /\ catalog'[i].extensions # <<>>
              /\ \A j \in 1..Len(catalog'[i].extensions) :
                    KindEnabled(catalog'[i].extensions[j])]_vars

\* The positions of the catalog
Positions(cats) ==
    UNION {{<<i, j>> : j \in 1..Len(cats[i].extensions)} :
              i \in 1..Len(cats)}

\* C17: after every load no two positions of the catalog hold entries of
\* the same name
C17_NamesUnique ==
    [][\A k \in pending :
         LoadCompletedBy(k)
         => \A p, q \in Positions(catalog') :
              p # q => GetName(catalog'[p[1]].extensions[p[2]])
                       # GetName(catalog'[q[1]].extensions[q[2]])]_vars

\* ------------------------------------------------------------------------
\* Properties of the installed maps

\* C18: no name is a key of npm_installed and of docker_installed
C18_InstalledDisjoint == SeqToSet(npm_installed) \cap docker_installed = {}

\* ------------------------------------------------------------------------
\* Properties of backup and restore

\* The step is a callback k of _read_npmignore or _download_gitignore that
\* calls _restore
RestoreCalledBy(k) ==
    /\ k.k \in {"read_npmignore", "https_get"}
    /\ Delivery(k)
    /\ Commit(Restore(Take(k), k))

\* The step starts tar.extract for name
ExtractStarted(name) ==
    \E x \in pending' \ pending : x.k = "tar_extract" /\ x.name = name

\* C19: _restore extracts the backup archive exactly when the job in flight
\* of the extension is an Update whose _backup made an archive; nothing else
\* extracts an archive, so an Install never does
C19_RestoreIffArchive ==
    [][/\ \A k \in pending :
            RestoreCalledBy(k)
            => (ExtractStarted(k.name)
                <=> /\ k.name \in archived
                    /\ k.name \in QueueNames(action_queue)
                    /\ Entry(action_queue, k.name).action = ACTION_UPDATE)
       /\ \A name \in Names :
            ExtractStarted(name)
            => \E k \in pending : k.name = name /\ RestoreCalledBy(k)]_vars

\* _restore has started the extraction of the archive the job made
C19_Witness ==
    \E k \in pending : k.k = "tar_extract" /\ k.name \in archived

\* ------------------------------------------------------------------------
\* Properties of _create_archive

\* The lines of the ignore file, trimmed and without one trailing slash
Stripped == LET lines == Split(ignore_data)
            IN  [i \in 1..Len(lines) |-> StripSlash(Trim(lines[i]))]
Archivable(line) ==
    /\ line # <<>>
    /\ line # <<"node_modules">>
    /\ Head(line) # "#"
    /\ line \in cwd_paths
\* _create_archive has run on the file
ArchiveListed ==
    \E k \in pending : k.k \in {"tar_create", "npm_update"} /\ k.name = "2048"

\* C20: the list of _create_archive is, in file order, the lines of the
\* ignore file that after trimming and stripping one trailing slash are not
\* empty, are not node_modules, do not start with '#' and exist under the
\* working directory
C20_ArchivedPaths ==
    ArchiveListed => globs = SelectSeq(Stripped, Archivable)

\* The lines data/, cache.db, #comment, node_modules over a directory with
\* only data/ and cache.db give [data, cache.db]
C20_Witness ==
    /\ ArchiveListed
    /\ ignore_data = ExampleFile
    /\ cwd_paths = ExampleDir
    /\ globs = <<<<"data">>, <<"cache.db">>>>

\* ------------------------------------------------------------------------
\* Properties of the names derived from urls

\* The url has the form https://host/owner/slug.git with an optional #branch
HasForm(u) ==
    /\ u.scheme = <<"https">>
    /\ u.path = <<"owner", "/", "slug">>
    /\ u.suffix = <<".", "git">>

\* C21: _get_name returns slug for every url https://host/owner/slug.git
\* with an optional #branch and no name, without an error, for every other
\* url; the branch of the ignore file is the #branch suffix when there is
\* one and master when there is none
C21_NameAndBranch ==
    /\ derived_name # NotCalled
       => /\ HasForm(entry_url) => derived_name = Text(<<"slug">>)
          /\ ~HasForm(entry_url) => derived_name = Undefined
    /\ branch \notin {NotCalled, Undefined}
       => branch = IF entry_url.committish # <<>>
                   THEN Text(Tail(entry_url.committish))
                   ELSE Text(<<"master">>)

\* ------------------------------------------------------------------------
\* Properties of the fetch of the ignore file

\* The step is the callback k of fs.readFile or https.get in the pipeline
PipelineStep(k) ==
    k.k \in {"read_npmignore", "https_get"} /\ k \in pending /\ k \notin pending'
\* The step starts https.get for name
FetchStarted(name) ==
    \E x \in pending' \ pending : x.k = "https_get" /\ x.name = name

\* C22: without an ignore file, whether the fetch of the canonical file is
\* started or not and however it ends, the pipeline goes on to _restore
C22_FetchNeverBlocks ==
    [][\A k \in pending :
          PipelineStep(k) => FetchStarted(k.name) \/ RestoreCalledBy(k)]_vars

\* ------------------------------------------------------------------------
\* Properties of the session

\* C23: session_error is undefined whenever action_queue is empty and is
\* false or true while a queue that has dispatched a job has entries left
C23_SessionScoped ==
    /\ action_queue = <<>> => session_error = "undefined"
    /\ (Alive /\ action_queue # <<>> /\ inflight # <<>>)
       => session_error \in {"false", "true"}

\* Every message of the list that is not an error went to status_cb
InfoDelivered(out) ==
    \A i \in 1..Len(out) : ~out[i].err => out[i].delivered
\* The step is the callback k of tar.extract
ExtractDoneBy(k) ==
    k.k = "tar_extract" /\ Delivery(k) /\ Commit(CallPostCb(Take(k), k))

\* C24: a status message that is not an error is handed to status_cb,
\* whether or not an error was reported in the session; stated for the
\* messages of the steps that complete a job after _restore
C24_InfoNeverSuppressed ==
    [][\A k \in pending :
          /\ RestoreCalledBy(k) => InfoDelivered(Restore(Take(k), k).status_out)
          /\ ExtractDoneBy(k) => InfoDelivered(CallPostCb(Take(k), k).status_out)]_vars

\* ------------------------------------------------------------------------
\* Properties of the order of an Update job

\* The outstanding calls of the Update job of name: they carry its
\* completion callback
UpdateCalls(p, name) == {k \in p : k.cb = "updated" /\ k.name = name}
\* The steps of the package backend in the order of the source: stop,
\* backup, update command, query with peer dependencies, ignore file and
\* restore
Rank(kind) ==
    CASE kind = "runner_exit" -> 1
      [] kind = "backup_read" -> 2
      [] kind = "tar_create" -> 3
      [] kind = "npm_update" -> 4
      [] kind = "query_installs" -> 5
      [] kind = "peer_dep" -> 6
      [] kind = "read_npmignore" -> 7
      [] kind = "https_get" -> 8
      [] kind = "tar_extract" -> 9
      [] OTHER -> 0
\* The Update job of name is dispatched and not completed
UpdateInFlight(name) ==
    /\ inflight # <<>> /\ name = inflight[Len(inflight)]
    /\ name \in QueueNames(action_queue)
    /\ Entry(action_queue, name).action = ACTION_UPDATE
UpdateEnded(name) ==
    \/ name \notin QueueNames(action_queue')
    \/ Entry(action_queue', name).action # ACTION_UPDATE

\* C25: in an Update job of a package extension other than the manager at
\* most one step is outstanding; a step starts in the callback of an earlier
\* step of the order stop, backup, update command, query with peer
\* dependencies, restore, or as the first step at dispatch; the job
\* completes in the callback of a restore step, or of the step that failed
C25_UpdateOrder ==
    [][\A name \in Names \ {MANAGER_NAME} :
          /\ Cardinality(UpdateCalls(pending', name)) <= 1
          /\ \A x \in UpdateCalls(pending', name) \ pending :
                Rank(x.k) > 0
                => \/ \E k \in UpdateCalls(pending, name) \ pending' :
                         \/ Rank(k.k) < Rank(x.k)
                         \/ k.k = "peer_dep" /\ x.k = "peer_dep"
                   \/ /\ UpdateCalls(pending, name) = {}
                      /\ x.k \in {"runner_exit", "backup_read"}
          /\ (UpdateInFlight(name) /\ UpdateEnded(name) /\ Alive')
             => \E k \in UpdateCalls(pending, name) \ pending' :
                    k.k \in {"read_npmignore", "https_get", "tar_extract",
                             "npm_update", "peer_dep", "docker_update"}]_vars

\* The Update job of an extension has gone through stop, backup, update
\* command and query, and its restore is outstanding
C25_Witness ==
    \E k \in pending :
        /\ k.k = "tar_extract" /\ k.cb = "updated" /\ k.name # MANAGER_NAME
        /\ UpdateInFlight(k.name)

\* ------------------------------------------------------------------------
\* Properties of the installed maps and the advertised updates

\* The step is a callback of _query_updates: of docker.query_updates or of
\* 'npm outdated'; no job has such a step
QueryUpdatesStep ==
    \E k \in pending \ pending' :
        k.k \in {"npm_outdated", "docker_query_updates"}

\* C26: while a job is in flight, before and after the step, a callback of
\* an update query, which belongs to no step of the job, leaves
\* npm_installed, docker_installed and updates_list as they are
C26_MapsOwnedByJob ==
    [][(/\ action_queue # <<>> /\ inflight # <<>>
        /\ inflight' = inflight /\ Alive'
        /\ QueryUpdatesStep)
       => /\ npm_installed' = npm_installed
          /\ docker_installed' = docker_installed
          /\ updates_list' = updates_list]_vars

\* ------------------------------------------------------------------------
\* Properties of the index cache

\* _get_index_pair(name) once the step is done
IndexPairAfter(name) ==
    GetIndexPair([Cur EXCEPT !.catalog = catalog',
                             !.index_cache = index_cache'], name).pair
\* The position is one of the catalog after the step and holds an entry of
\* the name
HoldsName(p, name) ==
    /\ p[1] <= Len(catalog') /\ p[2] <= Len(catalog'[p[1]].extensions)
    /\ GetName(catalog'[p[1]].extensions[p[2]]) = name

\* C27: after every load _get_index_pair(name) gives a position only if
\* the entry at that position of the catalog has the name, and gives
\* nothing for a name that is not in the catalog
C27_CacheMatchesCatalog ==
    [][\A k \in pending :
         LoadCompletedBy(k)
         => \A name \in Names :
              /\ IndexPairAfter(name) # NoPair
                 => HoldsName(IndexPairAfter(name), name)
              /\ name \notin CatalogNames(catalog')
                 => IndexPairAfter(name) = NoPair]_vars

\* ------------------------------------------------------------------------
\* Properties of the installed maps after a refresh

\* The step is the callback k of 'npm list' of _query_installs
InstallsQueriedBy(k) ==
    k.k = "query_installs" /\ k \in pending /\ k \notin pending'

\* C28: after every refresh of the installed state and after every load of
\* the catalog every key of npm_installed and of docker_installed is the
\* name of an entry of the catalog
C28_InstalledInCatalog ==
    [][\A k \in pending :
         (LoadCompletedBy(k) \/ InstallsQueriedBy(k))
         => /\ SeqToSet(npm_installed') \subseteq CatalogNames(catalog')
            /\ docker_installed' \subseteq CatalogNames(catalog')]_vars

\* The step is the callback k of a query that failed with an error other
\* than missing peer dependencies
QueryFailedBy(k) ==
    /\ k.k = "query_installs" /\ Delivery(k)
    /\ Commit(QueryInstallsResult(Take(k), k, OtherError, TRUE))

CatalogLoaded == \A x \in pending : x.k # "readdir"

\* C30: with the catalog loaded, every name a callback of _query_updates
\* adds to updates_list is the name of an entry of the catalog, and the
\* callback of docker.query_updates does not add the name of the manager
C30_UpdatesInCatalog ==
    [][\A k \in pending \ pending' :
         (k.k \in {"npm_outdated", "docker_query_updates"} /\ CatalogLoaded)
         => /\ (updates_list' \ updates_list) \subseteq CatalogNames(catalog')
            /\ k.k = "docker_query_updates"
               => MANAGER_NAME \notin updates_list' \ updates_list]_vars

\* ------------------------------------------------------------------------
\* Properties of the refresh of the advertised updates

\* C31: when 'npm outdated' prints nothing, a query for one name adds that
\* name alone to updates_list, and a query without a name adds no name to
\* updates_list and none to the results handed to the callback
C31_FallbackScopedOnly ==
    [][\A k \in pending :
         NpmOutdatedOn(k, <<>>)
         => IF k.name # ""
            THEN updates_list' \ updates_list \subseteq {k.name}
            ELSE /\ updates_list' = updates_list
                 /\ Outdated(Take(k), k, <<>>) = <<>>]_vars

\* C32: once the callback of 'npm outdated' has handled an output that is
\* not empty, no installed package that the output does not list is a key
\* of updates_list
C32_AdvertisementRefreshed ==
    [][\A k \in pending : \A lines \in Adverts :
         (lines # <<>> /\ NpmOutdatedOn(k, lines))
         => \A n \in SeqToSet(npm_installed') \ SeqToSet(lines) :
                n \notin updates_list']_vars

\* ------------------------------------------------------------------------
\* Properties of the self-update of the manager

\* The manager's Update entry has been dispatched
ManagerUpdateInFlight ==
    /\ MANAGER_NAME \in SeqToSet(inflight)
    /\ MANAGER_NAME \in QueueNames(action_queue)
    /\ Entry(action_queue, MANAGER_NAME).action = ACTION_UPDATE

\* C33: once the manager's Update entry has been dispatched, no step
\* dispatches an entry, the manager's entry stays in action_queue, and the
\* queue only grows at its end
C33_NothingAfterSelfUpdate ==
    [][ManagerUpdateInFlight
       => /\ ~Dispatched
          /\ ManagerUpdateInFlight'
          /\ Len(action_queue') >= Len(action_queue)
          /\ SubSeq(action_queue', 1, Len(action_queue)) = action_queue]_vars

\* the manager's Update is in flight, with a runner or without, and the
\* entry of a later request waits behind it
C33_Witness ==
    /\ ManagerUpdateInFlight
    /\ inflight = <<MANAGER_NAME>>
    /\ Len(action_queue) = 2
    /\ action_queue[1].name = MANAGER_NAME
    /\ last_call.op = "Update" /\ last_call.name = action_queue[2].name

\* C34: in the step that dispatches the manager's Update entry, the
\* manager's entry is the only entry of action_queue
C34_ManagerDispatchedAlone ==
    [][(/\ ManagerDispatched
        /\ Entry(action_queue', MANAGER_NAME).action = ACTION_UPDATE)
       => QueueNames(action_queue') = {MANAGER_NAME}]_vars

\* ------------------------------------------------------------------------
\* Properties of logging and of the child processes

\* The step called _terminate: with a runner the exit waits for
\* runner.prepare_exit; without one only a signal gets there
TerminateCalled ==
    \/ \E k \in pending' \ pending : k.k = "prepare_exit"
    \/ ~runner /\ requests' = requests + 1 /\ last_call'.op = "signal"

\* The names with a log registration, open or detached
Registered(l) == {n \in Names : l[n] # "absent"}

ChildExited(code) ==
    /\ requests' = requests + 1
    /\ last_call'.op = "child_exit" /\ last_call'.arg = code

\* C36: when a child ends by itself with code 1, the error status of the
\* on-exit callback is handed to status_cb whatever the session state, and
\* the callback leaves session_error as it is, so that no job failure of
\* the session is withheld because of it
C36_CrashReportedApart ==
    [][ChildExited("1")
       => LET out == OnExit(Cur, last_call'.name, FALSE, "1").status_out
          IN  /\ \E i \in 1..Len(out) :
                    /\ out[i].msg = "Process terminated"
                    /\ out[i].err /\ out[i].delivered
              /\ session_error' = session_error]_vars

\* ------------------------------------------------------------------------
\* Properties of the completion of an Install job

\* The step is the callback of the install command of name's Install job,
\* the command having failed
InstallFailedBy(k) ==
    /\ k.k \in {"npm_install", "docker_install"} /\ k.cb = "installed"
    /\ BackendDoneOn(k, TRUE)

\* The statuses of a handler that tell of a started process of name
StartedIn(out, name) ==
    {i \in 1..Len(out) : /\ out[i].name = name
                         /\ out[i].msg \in {"Started", "Started (with logging)"}}

\* C37: the step that completes an Install job with the version known
\* leaves the process of the extension running, and the process of the
\* manager or of the repository package as it was; the callback of a
\* failed install command starts nothing
C37_InstallStartsProcess ==
    [][/\ \A name \in Names :
            (/\ JobCompleted(name, ACTION_INSTALL)
             /\ name \in SeqToSet(npm_installed') \cup docker_installed'
             /\ \A k \in pending : ~InstallFailedBy(k))
            => IF name \in {MANAGER_NAME, REPOS_NAME}
               THEN proc'[name] = proc[name]
               ELSE proc'[name] = "running"
       /\ \A k \in pending :
            InstallFailedBy(k)
            => /\ StartedIn(BackendDone(k, TRUE).status_out, k.name) = {}
               /\ proc'[k.name] = proc[k.name]]_vars

\* ------------------------------------------------------------------------
\* Properties of the reload of the catalog

\* The step is the callback of a failed install or update command of the
\* repository package
RepositoryCommandFailed ==
    \E k \in pending :
        /\ k.k \in {"npm_install", "npm_update"} /\ k.name = REPOS_NAME
        /\ BackendDoneOn(k, TRUE)

\* C38: the step that completes an Install or Update job of the repository
\* package, the command not having failed and the version being known,
\* starts a load of the catalog, a self-update pending or not
C38_ReloadAfterRepositoryJob ==
    [][(/\ \/ JobCompleted(REPOS_NAME, ACTION_INSTALL)
           \/ JobCompleted(REPOS_NAME, ACTION_UPDATE)
        /\ REPOS_NAME \in SeqToSet(npm_installed')
        /\ ~RepositoryCommandFailed)
       => \E k \in pending' : k.k = "readdir"]_vars

\* ------------------------------------------------------------------------
\* Properties of the activity callback

\* Each invocation finds is_idle() changed: the first finds the opposite of
\* what held before the step, each later one the opposite of the one before
Alternates(calls, before) ==
    \A i \in 1..Len(calls) :
        calls[i] = (IF i = 1 THEN ~before ELSE ~calls[i - 1])

\* C39: in every step the invocations of on_activity_changed alternate
\* between busy and idle, starting from the state of the queue before the
\* step and ending with its state after the step; a step without an
\* invocation leaves the queue idle or busy as it was
C39_ActivityAtTransitions ==
    [][LET before == action_queue = <<>>
           after == action_queue' = <<>>
       IN  /\ Alternates(activity', before)
           /\ after = (IF activity' = <<>> THEN before
                       ELSE activity'[Len(activity')])]_vars

\* the install of a peer dependency failed for the only job of the queue:
\* the host was told of an idle queue, then of a busy one, and the entry is
\* an Uninstall now
C39_Witness ==
    /\ activity = <<TRUE, FALSE>>
    /\ Len(action_queue) = 1
    /\ action_queue[1].action = ACTION_UNINSTALL

\* ------------------------------------------------------------------------
\* Properties of the log registrations

\* The step is the callback of the stop of k.name: of perform_action Stop
\* or of an Uninstall job when by the user, else of a termination
StoppedBy(k) ==
    /\ k.k \in {"runner_exit", "docker_stop"}
    /\ k \in pending /\ k \notin pending'
    /\ requests' = requests

\* Only the registration of name may differ after the step
OthersKeep(name) ==
    \A n \in Names \ {name} : logs_list'[n] = logs_list[n]

\* C40: a registration with an open descriptor becomes detached when the
\* extension is terminated for an Update or ends by itself, and absent when
\* the user stops it; a detached registration is open again once the Update
\* job has started the extension with logging active; these steps leave the
\* registrations of the other names as they are
C40_RegistrationSurvives ==
    [][/\ \A k \in pending :
            (StoppedBy(k) /\ logs_list[k.name] = "fd")
            => /\ k.then = "update" => logs_list'[k.name] = "null"
               /\ (k.user /\ k.then = "none") => logs_list'[k.name] = "absent"
               /\ k.then \in {"update", "none"} => OthersKeep(k.name)
       /\ \A name \in Names \ {MANAGER_NAME} :
            /\ (ChildExited("0") \/ ChildExited("1"))
               /\ last_call'.name = name /\ logs_list[name] = "fd"
               => logs_list'[name] = "null" /\ OthersKeep(name)
            /\ (/\ JobCompleted(name, ACTION_UPDATE)
                /\ logging_active /\ logs_list[name] = "null"
                /\ proc[name] # "running" /\ proc'[name] = "running")
               => logs_list'[name] = "fd" /\ OthersKeep(name)]_vars

====
